---- MODULE Spec2Model ----
(***************************************************************************)
(* The schema layer of the tutorial-sharing application: the tables, the  *)
(* row-level-security policies, the foreign keys with their cascades, the *)
(* uniqueness constraints and the triggers of the migration               *)
(* supabase/migrations/20251123161127_....sql, driven by the requests a   *)
(* client (or the identity provider) can send.                            *)
(*                                                                         *)
(* A child table (tutorial_likes, tutorial_comments, enrollments) is the  *)
(* multiset of its rows' (tutorial_id, user_id) pairs: the surrogate id   *)
(* and the timestamps of a row are left out, so a table is a function     *)
(* from pairs to the number of rows holding that pair.                    *)
(*                                                                         *)
(* Beside the tables the module holds the storage bucket tutorial-media   *)
(* with its policies, each under a specification of its own (Spec is the  *)
(* schema layer; the other parts stay idle there).                        *)
(***************************************************************************)
EXTENDS Integers, FiniteSets, Sequences, TLC

MaxUsers == 2
MaxTutorials == 2
MaxRows == 2
\* handler invocations (clicks, submissions) of the pages
MaxHandlers == 2
\* the latest time NOW() returns
MaxClock == 1
\* the longest text typed into the comment field
MaxText == 2

Users == 1..MaxUsers
\* auth.uid() of a request that carries no session: NULL, equal to no user id
Anon == 0
Callers == Users \cup {Anon}
TutorialIds == 1..MaxTutorials
Pairs == TutorialIds \X Users

Null == "NULL"
DefaultName == "New User"
Names == {DefaultName, "Ann"}
\* counter values a client writes in a tutorials row (0 is the column default)
CounterInputs == {-1, 0}

VARIABLES auth_users, profiles, tutorials, tutorial_likes, tutorial_comments,
          enrollments, last,
          \* storage.objects of the bucket tutorial-media, and the answer to
          \* the last storage request
          objects, storage_last,
          \* open transactions: each user's transaction, the holder of the
          \* row lock on the tutorial they write, and the counters at start
          txn, row_lock, txn_start,
          \* the pages of a browser: the state of the components and the
          \* invocations of their handlers
          view, handlers,
          \* the time NOW() returns, the timestamped rows, and the last
          \* statement on them
          now, stamped, stamped_last,
          \* a like or enrollment made and taken back: how far it is and
          \* what the tutorial was before
          trip,
          \* the state of the page component that is mounted (CreateTutorial,
          \* Dashboard, Browse, Home, the comment form of TutorialDetail),
          \* with the calls of its handlers that are under way
          page

\* the tables of the schema layer
database == <<auth_users, profiles, tutorials, tutorial_likes, tutorial_comments,
              enrollments, last>>
storage == <<objects, storage_last>>
transactions == <<txn, row_lock, txn_start>>
client == <<view, handlers>>
timestamps == <<now, stamped, stamped_last>>

\* what a request to the schema layer, to the bucket, a step of a
\* transaction leaves alone
outside_database == <<storage, transactions, timestamps>>
outside_storage == <<database, transactions, timestamps, trip>>
outside_transactions == <<storage, client, timestamps, trip, page>>
outside_client == <<transactions, timestamps, trip, page>>
outside_timestamps == <<database, storage, transactions, client, trip, page>>
outside_page == <<database, storage, transactions, client, timestamps, trip>>

vars == <<database, storage, transactions, client, timestamps, trip, page>>

----------------------------------------------------------------------------
(* helpers *)

RECURSIVE SumOver(_, _)
SumOver(f, S) ==
  IF S = {} THEN 0
  ELSE LET x == CHOOSE y \in S : TRUE IN f[x] + SumOver(f, S \ {x})

\* number of rows of a child table that reference tutorial t
RowsOf(tbl, t) == SumOver([u \in Users |-> tbl[<<t, u>>]], Users)
\* number of rows of a child table
RowCount(tbl) == SumOver(tbl, Pairs)

Greatest(a, b) == IF a >= b THEN a ELSE b

Without(f, S) == [x \in (DOMAIN f) \ S |-> f[x]]

EmptyTable == [p \in Pairs |-> 0]
\* a keyed table (profiles, tutorials) with no row
NoRows == [x \in {} |-> Null]

\* the rows held by the three child tables together, which MaxRows bounds
ChildRows ==
  RowCount(tutorial_likes) + RowCount(tutorial_comments) + RowCount(enrollments)

\* the answer to the last request: the operation and how the schema layer
\* settled it
Response(op, result) == [op |-> op, result |-> result]

----------------------------------------------------------------------------
(* row-level-security policies *)

\* tutorials: INSERT WITH CHECK (auth.uid() = user_id)
TutorialsInsertCheck(caller, row) == caller = row.user_id
\* tutorials: UPDATE USING (auth.uid() = user_id); with no WITH CHECK the
\* USING expression is also the check of the new row
TutorialsUpdateUsing(caller, row) == caller = row.user_id
\* variant: DELETE USING (auth.role() = 'authenticated'), any signed-in user
TutorialsDeleteUsingAnyUser(caller, row) == caller # Anon
\* tutorials: DELETE USING (auth.uid() = user_id)
TutorialsDeleteUsing(caller, row) == caller = row.user_id

\* tutorial_likes: INSERT WITH CHECK / DELETE USING (auth.uid() = user_id)
LikesInsertCheck(caller, user_id) == caller = user_id
LikesDeleteUsing(caller, user_id) == caller = user_id
\* tutorial_comments
CommentsInsertCheck(caller, user_id) == caller = user_id
\* variant: comments deletable by any signed-in user
CommentsDeleteUsingAnyUser(caller, user_id) == caller # Anon
CommentsDeleteUsing(caller, user_id) == caller = user_id
\* enrollments
\* variant: enrollments viewable by everyone, as likes and comments are
EnrollmentsSelectUsingPublic(caller, user_id) == TRUE
EnrollmentsSelectUsing(caller, user_id) == caller = user_id
EnrollmentsInsertCheck(caller, user_id) == caller = user_id
EnrollmentsDeleteUsing(caller, user_id) == caller = user_id
\* tutorial_likes, tutorial_comments, enrollments: row level security is
\* enabled and no policy is FOR UPDATE, so no row passes for any caller
\* variant: "Users can update own comments" USING (auth.uid() = user_id)
CommentsUpdateUsingOwn(caller, user_id) == caller = user_id
LikesUpdateUsing(caller, user_id) == FALSE
CommentsUpdateUsing(caller, user_id) == FALSE
EnrollmentsUpdateUsing(caller, user_id) == FALSE
\* likes and comments: SELECT USING (true)
LikesSelectUsing(caller, user_id) == TRUE
CommentsSelectUsing(caller, user_id) == TRUE

\* profiles: UPDATE USING (auth.uid() = id), INSERT WITH CHECK (auth.uid() = id)
\* variant: profiles updatable by any signed-in user
ProfilesUpdateUsingAnyUser(caller, id) == caller # Anon
ProfilesUpdateUsing(caller, id) == caller = id
ProfilesInsertCheck(caller, id) == caller = id

----------------------------------------------------------------------------
(* triggers *)

\* update_tutorial_likes_count, fired AFTER INSERT OR DELETE, FOR EACH ROW
update_tutorial_likes_count(tuts, tg_op, tutorial_id) ==
  IF tutorial_id \notin DOMAIN tuts THEN tuts
  ELSE IF tg_op = "INSERT"
       THEN [tuts EXCEPT ![tutorial_id].likes_count = @ + 1]
       ELSE [tuts EXCEPT ![tutorial_id].likes_count = Greatest(@ - 1, 0)]

\* variant: the function copied from update_tutorial_likes_count with the
\* column name left as it was
update_tutorial_comments_count_copied(tuts, tg_op, tutorial_id) ==
  update_tutorial_likes_count(tuts, tg_op, tutorial_id)

update_tutorial_comments_count(tuts, tg_op, tutorial_id) ==
  IF tutorial_id \notin DOMAIN tuts THEN tuts
  ELSE IF tg_op = "INSERT"
       THEN [tuts EXCEPT ![tutorial_id].comments_count = @ + 1]
       ELSE [tuts EXCEPT ![tutorial_id].comments_count = Greatest(@ - 1, 0)]

\* variant: the trigger created AFTER INSERT only
update_tutorial_enrollments_count_insert_only(tuts, tg_op, tutorial_id) ==
  IF tutorial_id \notin DOMAIN tuts THEN tuts
  ELSE IF tg_op = "INSERT"
       THEN [tuts EXCEPT ![tutorial_id].enrollments_count = @ + 1]
       ELSE tuts

update_tutorial_enrollments_count(tuts, tg_op, tutorial_id) ==
  IF tutorial_id \notin DOMAIN tuts THEN tuts
  ELSE IF tg_op = "INSERT"
       THEN [tuts EXCEPT ![tutorial_id].enrollments_count = @ + 1]
       ELSE [tuts EXCEPT ![tutorial_id].enrollments_count = Greatest(@ - 1, 0)]

\* the row-level triggers of a statement that deletes n rows referencing one
\* tutorial: the function runs once per row
RECURSIVE on_tutorial_like_change(_, _, _, _)
on_tutorial_like_change(tuts, tg_op, tutorial_id, n) ==
  IF n = 0 THEN tuts
  ELSE on_tutorial_like_change(
         update_tutorial_likes_count(tuts, tg_op, tutorial_id),
         tg_op, tutorial_id, n - 1)

RECURSIVE on_tutorial_comment_change(_, _, _, _)
on_tutorial_comment_change(tuts, tg_op, tutorial_id, n) ==
  IF n = 0 THEN tuts
  ELSE on_tutorial_comment_change(
         update_tutorial_comments_count(tuts, tg_op, tutorial_id),
         tg_op, tutorial_id, n - 1)

RECURSIVE on_enrollment_change(_, _, _, _)
on_enrollment_change(tuts, tg_op, tutorial_id, n) ==
  IF n = 0 THEN tuts
  ELSE on_enrollment_change(
         update_tutorial_enrollments_count(tuts, tg_op, tutorial_id),
         tg_op, tutorial_id, n - 1)

\* variant: full_name taken from the metadata without COALESCE, a missing
\* name stored as the text 'NULL'
handle_new_user_uncoalesced(meta_full_name) ==
  [full_name |-> meta_full_name, bio |-> Null, avatar_url |-> Null]

\* handle_new_user: the profile row of a new auth.users row
handle_new_user(meta_full_name) ==
  [full_name  |-> IF meta_full_name = Null THEN DefaultName ELSE meta_full_name,
   bio        |-> Null,
   avatar_url |-> Null]

----------------------------------------------------------------------------
(* foreign keys: ON DELETE CASCADE *)

\* variant: tutorial_id without ON DELETE CASCADE, the rows of a deleted
\* tutorial stay
CascadeRowsUserOnly(tbl, ts, us) ==
  [p \in Pairs |-> IF p[2] \in us THEN 0 ELSE tbl[p]]

\* child rows left after the rows referencing a tutorial of ts, or made by
\* a user of us, are deleted
CascadeRows(tbl, ts, us) ==
  [p \in Pairs |-> IF p[1] \in ts \/ p[2] \in us THEN 0 ELSE tbl[p]]

\* variant: the rows deleted by the cascade fire no counter trigger
CascadeUserTriggersSkipped(tuts, ts, u) == tuts

\* the counter triggers of the child rows of user u deleted by the cascade,
\* tutorial by tutorial
RECURSIVE CascadeUserTriggers(_, _, _)
CascadeUserTriggers(tuts, ts, u) ==
  IF ts = {} THEN tuts
  ELSE LET t  == CHOOSE x \in ts : TRUE
           a  == on_tutorial_like_change(tuts, "DELETE", t, tutorial_likes[<<t, u>>])
           b  == on_tutorial_comment_change(a, "DELETE", t, tutorial_comments[<<t, u>>])
           c  == on_enrollment_change(b, "DELETE", t, enrollments[<<t, u>>])
       IN CascadeUserTriggers(c, ts \ {t}, u)

----------------------------------------------------------------------------
\* the answer to the last storage request, with who sent it and for which
\* object
StorageResponse(op, result, caller, name) ==
  [op |-> op, result |-> result, caller |-> caller, name |-> name]

\* the bucket as the migration creates it: no object
StorageEmpty ==
  /\ objects = <<>>
  /\ storage_last = StorageResponse("none", "ok", Anon, <<>>)

\* no page is open
NoClient ==
  /\ view = Null
  /\ handlers = <<>>

\* no row with timestamps is looked at
NoTimestamps ==
  /\ now = 0
  /\ stamped = <<>>
  /\ stamped_last = Response("none", "ok")

\* no like or enrollment is being made and taken back
NoTrip == trip = [phase |-> "off"]

\* no page component is mounted
NoPage == page = [name |-> "none"]

\* A request that no handler of a page sent leaves the pages alone; the
\* answer to a handler's request is taken by the handler's own step. The
\* same holds for the requests of a round trip.
ClientFrame ==
  /\ IF handlers = <<>> THEN UNCHANGED client ELSE TRUE
  /\ IF trip.phase = "off" THEN UNCHANGED trip ELSE TRUE
  /\ IF page.name = "none" THEN UNCHANGED page ELSE TRUE

\* a transaction that has not begun
NoTxn == [pc |-> "idle", table |-> Null, tg_op |-> Null, write |-> Null]

\* no transaction is open
TransactionsIdle ==
  /\ txn = [u \in Users |-> NoTxn]
  /\ row_lock = Anon
  /\ txn_start = Null

Init ==
  /\ auth_users = {}
  /\ profiles = NoRows
  /\ tutorials = NoRows
  /\ tutorial_likes = EmptyTable
  /\ tutorial_comments = EmptyTable
  /\ enrollments = EmptyTable
  /\ last = Response("none", "ok")
  /\ StorageEmpty
  /\ TransactionsIdle
  /\ NoClient
  /\ NoTimestamps
  /\ NoTrip
  /\ NoPage

\* who sends a request: a signed-in user, whose account exists, or a client
\* with no session
Sessions == auth_users \cup {Anon}

----------------------------------------------------------------------------
(* identity provider: auth.users *)

\* variant: sign-up without the trigger on_auth_user_created
CreateUserNoProfile(id, meta_full_name) ==
  /\ id \notin auth_users
  /\ auth_users' = auth_users \cup {id}
  /\ last' = Response("CreateUser", "ok")
  /\ UNCHANGED <<profiles, tutorials, tutorial_likes, tutorial_comments,
                 enrollments>>
  /\ UNCHANGED outside_database
  /\ ClientFrame

\* sign-up: INSERT INTO auth.users, then the trigger on_auth_user_created
\* inserts the profile; a failing trigger aborts the whole insert
CreateUser(id, meta_full_name) ==
  /\ id \notin auth_users
  /\ IF id \in DOMAIN profiles
     THEN /\ last' = Response("CreateUser", "unique_violation")
          /\ UNCHANGED <<auth_users, profiles>>
     ELSE /\ auth_users' = auth_users \cup {id}
          /\ profiles' = [x \in DOMAIN profiles \cup {id} |->
                            IF x = id THEN handle_new_user(meta_full_name)
                            ELSE profiles[x]]
          /\ last' = Response("CreateUser", "ok")
  /\ UNCHANGED <<tutorials, tutorial_likes, tutorial_comments, enrollments>>
  /\ UNCHANGED outside_database
  /\ ClientFrame

\* deletion of an identity: DELETE FROM auth.users, cascading to profiles,
\* from there to the tutorials of the profile and to the likes, comments and
\* enrollments of the profile, and from the tutorials to their child rows
DeleteUser(id) ==
  /\ id \in auth_users
  /\ LET gone  == IF id \in DOMAIN profiles THEN {id} ELSE {}
         owned == {t \in DOMAIN tutorials : tutorials[t].user_id \in gone}
         kept  == Without(tutorials, owned)
     IN /\ auth_users' = auth_users \ {id}
        /\ profiles' = Without(profiles, gone)
        /\ tutorials' = IF gone = {} THEN kept
                        ELSE CascadeUserTriggers(kept, DOMAIN kept, id)
        /\ tutorial_likes' = CascadeRows(tutorial_likes, owned, gone)
        /\ tutorial_comments' = CascadeRows(tutorial_comments, owned, gone)
        /\ enrollments' = CascadeRows(enrollments, owned, gone)
        /\ last' = Response("DeleteUser", "ok")
  /\ UNCHANGED outside_database
  /\ ClientFrame

----------------------------------------------------------------------------
(* profiles *)

InsertProfile(caller, id, full_name) ==
  /\ caller \in Sessions
  /\ IF ~ProfilesInsertCheck(caller, id)
     THEN /\ last' = Response("InsertProfile", "rls_violation")
          /\ UNCHANGED profiles
     ELSE IF id \in DOMAIN profiles
     THEN /\ last' = Response("InsertProfile", "unique_violation")
          /\ UNCHANGED profiles
     ELSE IF id \notin auth_users
     THEN /\ last' = Response("InsertProfile", "fk_violation")
          /\ UNCHANGED profiles
     ELSE /\ profiles' = [x \in DOMAIN profiles \cup {id} |->
                            IF x = id
                            THEN [full_name |-> full_name, bio |-> Null,
                                  avatar_url |-> Null]
                            ELSE profiles[x]]
          /\ last' = Response("InsertProfile", "ok")
  /\ UNCHANGED <<auth_users, tutorials, tutorial_likes, tutorial_comments,
                 enrollments>>
  /\ UNCHANGED outside_database
  /\ ClientFrame

UpdateProfile(caller, id, full_name) ==
  /\ caller \in Sessions
  /\ IF id \notin DOMAIN profiles
     THEN /\ last' = Response("UpdateProfile", "not_found")
          /\ UNCHANGED profiles
     ELSE IF ~ProfilesUpdateUsing(caller, id)
     THEN /\ last' = Response("UpdateProfile", "rls_filtered")
          /\ UNCHANGED profiles
     ELSE /\ profiles' = [profiles EXCEPT ![id].full_name = full_name]
          /\ last' = Response("UpdateProfile", "ok")
  /\ UNCHANGED <<auth_users, tutorials, tutorial_likes, tutorial_comments,
                 enrollments>>
  /\ UNCHANGED outside_database
  /\ ClientFrame

----------------------------------------------------------------------------
(* tutorials *)

InsertTutorial(caller, id, row) ==
  /\ caller \in Sessions
  /\ id \notin DOMAIN tutorials
  /\ IF ~TutorialsInsertCheck(caller, row)
     THEN /\ last' = Response("InsertTutorial", "rls_violation")
          /\ UNCHANGED tutorials
     ELSE IF row.user_id \notin DOMAIN profiles
     THEN /\ last' = Response("InsertTutorial", "fk_violation")
          /\ UNCHANGED tutorials
     ELSE /\ tutorials' = [x \in DOMAIN tutorials \cup {id} |->
                             IF x = id THEN row ELSE tutorials[x]]
          /\ last' = Response("InsertTutorial", "ok")
  /\ UNCHANGED <<auth_users, profiles, tutorial_likes, tutorial_comments,
                 enrollments>>
  /\ UNCHANGED outside_database
  /\ ClientFrame

UpdateTutorial(caller, id, row) ==
  /\ caller \in Sessions
  /\ IF id \notin DOMAIN tutorials
     THEN /\ last' = Response("UpdateTutorial", "not_found")
          /\ UNCHANGED tutorials
     ELSE IF ~TutorialsUpdateUsing(caller, tutorials[id])
     THEN /\ last' = Response("UpdateTutorial", "rls_filtered")
          /\ UNCHANGED tutorials
     ELSE IF ~TutorialsUpdateUsing(caller, row)
     THEN /\ last' = Response("UpdateTutorial", "rls_violation")
          /\ UNCHANGED tutorials
     ELSE IF row.user_id \notin DOMAIN profiles
     THEN /\ last' = Response("UpdateTutorial", "fk_violation")
          /\ UNCHANGED tutorials
     ELSE /\ tutorials' = [tutorials EXCEPT ![id] = row]
          /\ last' = Response("UpdateTutorial", "ok")
  /\ UNCHANGED <<auth_users, profiles, tutorial_likes, tutorial_comments,
                 enrollments>>
  /\ UNCHANGED outside_database
  /\ ClientFrame

\* DELETE FROM tutorials WHERE id = ..., as issued by handleDeleteTutorial;
\* the child rows go with the tutorial, their triggers find no tutorial row
DeleteTutorial(caller, id) ==
  /\ caller \in Sessions
  /\ IF id \notin DOMAIN tutorials
     THEN /\ last' = Response("DeleteTutorial", "not_found")
          /\ UNCHANGED <<tutorials, tutorial_likes, tutorial_comments, enrollments>>
     ELSE IF ~TutorialsDeleteUsing(caller, tutorials[id])
     THEN /\ last' = Response("DeleteTutorial", "rls_filtered")
          /\ UNCHANGED <<tutorials, tutorial_likes, tutorial_comments, enrollments>>
     ELSE LET kept == Without(tutorials, {id})
              a == on_tutorial_like_change(kept, "DELETE", id,
                                           RowsOf(tutorial_likes, id))
              b == on_tutorial_comment_change(a, "DELETE", id,
                                              RowsOf(tutorial_comments, id))
              c == on_enrollment_change(b, "DELETE", id, RowsOf(enrollments, id))
          IN /\ tutorials' = c
             /\ tutorial_likes' = CascadeRows(tutorial_likes, {id}, {})
             /\ tutorial_comments' = CascadeRows(tutorial_comments, {id}, {})
             /\ enrollments' = CascadeRows(enrollments, {id}, {})
             /\ last' = Response("DeleteTutorial", "ok")
  /\ UNCHANGED <<auth_users, profiles>>
  /\ UNCHANGED outside_database
  /\ ClientFrame

----------------------------------------------------------------------------
(* tutorial_likes *)

\* variant: tutorial_likes without its UNIQUE constraint
LikesUniqueDropped(tutorial_id, user_id) == TRUE

\* UNIQUE(tutorial_id, user_id)
LikesUnique(tutorial_id, user_id) == tutorial_likes[<<tutorial_id, user_id>>] = 0

InsertLike(caller, tutorial_id, user_id) ==
  /\ caller \in Sessions
  /\ IF ~LikesInsertCheck(caller, user_id)
     THEN /\ last' = Response("InsertLike", "rls_violation")
          /\ UNCHANGED <<tutorials, tutorial_likes>>
     ELSE IF ~LikesUnique(tutorial_id, user_id)
     THEN /\ last' = Response("InsertLike", "unique_violation")
          /\ UNCHANGED <<tutorials, tutorial_likes>>
     ELSE IF tutorial_id \notin DOMAIN tutorials \/ user_id \notin DOMAIN profiles
     THEN /\ last' = Response("InsertLike", "fk_violation")
          /\ UNCHANGED <<tutorials, tutorial_likes>>
     ELSE /\ ChildRows < MaxRows
          /\ tutorial_likes' =
               [tutorial_likes EXCEPT ![<<tutorial_id, user_id>>] = @ + 1]
          /\ tutorials' = on_tutorial_like_change(tutorials, "INSERT", tutorial_id, 1)
          /\ last' = Response("InsertLike", "ok")
  /\ UNCHANGED <<auth_users, profiles, tutorial_comments, enrollments>>
  /\ UNCHANGED outside_database
  /\ ClientFrame

\* DELETE ... WHERE tutorial_id = ... AND user_id = ..., as handleLike issues it
DeleteLike(caller, tutorial_id, user_id) ==
  /\ caller \in Sessions
  /\ LET n == tutorial_likes[<<tutorial_id, user_id>>] IN
     IF n = 0
     THEN /\ last' = Response("DeleteLike", "not_found")
          /\ UNCHANGED <<tutorials, tutorial_likes>>
     ELSE IF ~LikesDeleteUsing(caller, user_id)
     THEN /\ last' = Response("DeleteLike", "rls_filtered")
          /\ UNCHANGED <<tutorials, tutorial_likes>>
     ELSE /\ tutorial_likes' = [tutorial_likes EXCEPT ![<<tutorial_id, user_id>>] = 0]
          /\ tutorials' = on_tutorial_like_change(tutorials, "DELETE", tutorial_id, n)
          /\ last' = Response("DeleteLike", "ok")
  /\ UNCHANGED <<auth_users, profiles, tutorial_comments, enrollments>>
  /\ UNCHANGED outside_database
  /\ ClientFrame

----------------------------------------------------------------------------
(* enrollments *)

\* UNIQUE(tutorial_id, user_id)
EnrollmentsUnique(tutorial_id, user_id) == enrollments[<<tutorial_id, user_id>>] = 0

InsertEnrollment(caller, tutorial_id, user_id) ==
  /\ caller \in Sessions
  /\ IF ~EnrollmentsInsertCheck(caller, user_id)
     THEN /\ last' = Response("InsertEnrollment", "rls_violation")
          /\ UNCHANGED <<tutorials, enrollments>>
     ELSE IF ~EnrollmentsUnique(tutorial_id, user_id)
     THEN /\ last' = Response("InsertEnrollment", "unique_violation")
          /\ UNCHANGED <<tutorials, enrollments>>
     ELSE IF tutorial_id \notin DOMAIN tutorials \/ user_id \notin DOMAIN profiles
     THEN /\ last' = Response("InsertEnrollment", "fk_violation")
          /\ UNCHANGED <<tutorials, enrollments>>
     ELSE /\ ChildRows < MaxRows
          /\ enrollments' = [enrollments EXCEPT ![<<tutorial_id, user_id>>] = @ + 1]
          /\ tutorials' = on_enrollment_change(tutorials, "INSERT", tutorial_id, 1)
          /\ last' = Response("InsertEnrollment", "ok")
  /\ UNCHANGED <<auth_users, profiles, tutorial_likes, tutorial_comments>>
  /\ UNCHANGED outside_database
  /\ ClientFrame

DeleteEnrollment(caller, tutorial_id, user_id) ==
  /\ caller \in Sessions
  /\ LET n == enrollments[<<tutorial_id, user_id>>] IN
     IF n = 0
     THEN /\ last' = Response("DeleteEnrollment", "not_found")
          /\ UNCHANGED <<tutorials, enrollments>>
     ELSE IF ~EnrollmentsDeleteUsing(caller, user_id)
     THEN /\ last' = Response("DeleteEnrollment", "rls_filtered")
          /\ UNCHANGED <<tutorials, enrollments>>
     ELSE /\ enrollments' = [enrollments EXCEPT ![<<tutorial_id, user_id>>] = 0]
          /\ tutorials' = on_enrollment_change(tutorials, "DELETE", tutorial_id, n)
          /\ last' = Response("DeleteEnrollment", "ok")
  /\ UNCHANGED <<auth_users, profiles, tutorial_likes, tutorial_comments>>
  /\ UNCHANGED outside_database
  /\ ClientFrame

----------------------------------------------------------------------------
(* tutorial_comments: no uniqueness constraint *)

InsertComment(caller, tutorial_id, user_id) ==
  /\ caller \in Sessions
  /\ IF ~CommentsInsertCheck(caller, user_id)
     THEN /\ last' = Response("InsertComment", "rls_violation")
          /\ UNCHANGED <<tutorials, tutorial_comments>>
     ELSE IF tutorial_id \notin DOMAIN tutorials \/ user_id \notin DOMAIN profiles
     THEN /\ last' = Response("InsertComment", "fk_violation")
          /\ UNCHANGED <<tutorials, tutorial_comments>>
     ELSE /\ ChildRows < MaxRows
          /\ tutorial_comments' =
               [tutorial_comments EXCEPT ![<<tutorial_id, user_id>>] = @ + 1]
          /\ tutorials' = on_tutorial_comment_change(tutorials, "INSERT", tutorial_id, 1)
          /\ last' = Response("InsertComment", "ok")
  /\ UNCHANGED <<auth_users, profiles, tutorial_likes, enrollments>>
  /\ UNCHANGED outside_database
  /\ ClientFrame

\* DELETE of one comment row, addressed by its id
DeleteComment(caller, tutorial_id, user_id) ==
  /\ caller \in Sessions
  /\ IF tutorial_comments[<<tutorial_id, user_id>>] = 0
     THEN /\ last' = Response("DeleteComment", "not_found")
          /\ UNCHANGED <<tutorials, tutorial_comments>>
     ELSE IF ~CommentsDeleteUsing(caller, user_id)
     THEN /\ last' = Response("DeleteComment", "rls_filtered")
          /\ UNCHANGED <<tutorials, tutorial_comments>>
     ELSE /\ tutorial_comments' =
               [tutorial_comments EXCEPT ![<<tutorial_id, user_id>>] = @ - 1]
          /\ tutorials' = on_tutorial_comment_change(tutorials, "DELETE", tutorial_id, 1)
          /\ last' = Response("DeleteComment", "ok")
  /\ UNCHANGED <<auth_users, profiles, tutorial_likes, enrollments>>
  /\ UNCHANGED outside_database
  /\ ClientFrame

----------------------------------------------------------------------------
(* UPDATE of a child row (say, of a comment's content). The three triggers
   are AFTER INSERT OR DELETE: an UPDATE fires none of them. *)

\* the rows of pair p that an UPDATE by caller reaches, and its answer
UpdateChildRow(op, tbl, using, caller, tutorial_id, user_id) ==
  /\ caller \in Sessions
  /\ last' = Response(op, IF tbl[<<tutorial_id, user_id>>] = 0 THEN "not_found"
                          ELSE IF ~using THEN "rls_filtered"
                          ELSE "ok")
  /\ UNCHANGED <<auth_users, profiles, tutorials, tutorial_likes,
                 tutorial_comments, enrollments>>
  /\ UNCHANGED outside_database
  /\ ClientFrame

UpdateLike(caller, tutorial_id, user_id) ==
  UpdateChildRow("UpdateLike", tutorial_likes,
                 LikesUpdateUsing(caller, user_id), caller, tutorial_id, user_id)

UpdateComment(caller, tutorial_id, user_id) ==
  UpdateChildRow("UpdateComment", tutorial_comments,
                 CommentsUpdateUsing(caller, user_id), caller, tutorial_id, user_id)

UpdateEnrollment(caller, tutorial_id, user_id) ==
  UpdateChildRow("UpdateEnrollment", enrollments,
                 EnrollmentsUpdateUsing(caller, user_id), caller, tutorial_id, user_id)

----------------------------------------------------------------------------
(* reads: the rows of table tbl a SELECT returns to caller *)

SelectLikes(caller, tbl) ==
  [p \in Pairs |-> IF LikesSelectUsing(caller, p[2]) THEN tbl[p] ELSE 0]
SelectComments(caller, tbl) ==
  [p \in Pairs |-> IF CommentsSelectUsing(caller, p[2]) THEN tbl[p] ELSE 0]
\* as fetchData and checkEnrollmentStatus read it
SelectEnrollments(caller, tbl) ==
  [p \in Pairs |-> IF EnrollmentsSelectUsing(caller, p[2]) THEN tbl[p] ELSE 0]

----------------------------------------------------------------------------
\* The rows a request can carry for a tutorial. The content columns (title,
\* description, ...) are left out. The policies name no column, so a request
\* may set a counter: the requests of the model write likes_count, the other
\* two counters keep the column default or their old value.
NewTutorialRows ==
  [user_id : Users, likes_count : CounterInputs \cup {0},
   comments_count : {0}, enrollments_count : {0}]

\* the rows an UPDATE can turn tutorial id into
UpdatedTutorialRows(id) ==
  IF id \notin DOMAIN tutorials THEN NewTutorialRows
  ELSE [user_id : Users,
        likes_count : CounterInputs \cup {tutorials[id].likes_count},
        comments_count : {tutorials[id].comments_count},
        enrollments_count : {tutorials[id].enrollments_count}]

Next ==
  \/ \E id \in Users, n \in Names \cup {Null} : CreateUser(id, n)
  \/ \E id \in Users : DeleteUser(id)
  \/ \E c \in Callers, id \in Users, n \in Names : InsertProfile(c, id, n)
  \/ \E c \in Callers, id \in Users, n \in Names : UpdateProfile(c, id, n)
  \/ \E c \in Callers, id \in TutorialIds, r \in NewTutorialRows :
       InsertTutorial(c, id, r)
  \/ \E c \in Callers, id \in TutorialIds :
       \E r \in UpdatedTutorialRows(id) : UpdateTutorial(c, id, r)
  \/ \E c \in Callers, id \in TutorialIds : DeleteTutorial(c, id)
  \/ \E c \in Callers, t \in TutorialIds, u \in Users : InsertLike(c, t, u)
  \/ \E c \in Callers, t \in TutorialIds, u \in Users : DeleteLike(c, t, u)
  \/ \E c \in Callers, t \in TutorialIds, u \in Users : InsertEnrollment(c, t, u)
  \/ \E c \in Callers, t \in TutorialIds, u \in Users : DeleteEnrollment(c, t, u)
  \/ \E c \in Callers, t \in TutorialIds, u \in Users : InsertComment(c, t, u)
  \/ \E c \in Callers, t \in TutorialIds, u \in Users : DeleteComment(c, t, u)

Spec == Init /\ [][Next]_vars

\* The child tables under every statement a client can send for them,
\* UPDATE included, from the state in which every user has signed up and
\* every tutorial of TutorialIds exists, new, with some owner.
ChildRowsInit ==
  /\ auth_users = Users
  /\ profiles = [u \in Users |-> handle_new_user(Null)]
  /\ tutorials \in [TutorialIds -> [user_id : Users, likes_count : {0},
                                     comments_count : {0}, enrollments_count : {0}]]
  /\ tutorial_likes = EmptyTable
  /\ tutorial_comments = EmptyTable
  /\ enrollments = EmptyTable
  /\ last = Response("none", "ok")
  /\ StorageEmpty
  /\ TransactionsIdle
  /\ NoClient
  /\ NoTimestamps
  /\ NoTrip
  /\ NoPage

ChildRowsNext ==
  \/ \E c \in Callers, t \in TutorialIds, u \in Users : InsertLike(c, t, u)
  \/ \E c \in Callers, t \in TutorialIds, u \in Users : DeleteLike(c, t, u)
  \/ \E c \in Callers, t \in TutorialIds, u \in Users : InsertEnrollment(c, t, u)
  \/ \E c \in Callers, t \in TutorialIds, u \in Users : DeleteEnrollment(c, t, u)
  \/ \E c \in Callers, t \in TutorialIds, u \in Users : InsertComment(c, t, u)
  \/ \E c \in Callers, t \in TutorialIds, u \in Users : DeleteComment(c, t, u)
  \/ \E c \in Callers, t \in TutorialIds, u \in Users : UpdateLike(c, t, u)
  \/ \E c \in Callers, t \in TutorialIds, u \in Users : UpdateComment(c, t, u)
  \/ \E c \in Callers, t \in TutorialIds, u \in Users : UpdateEnrollment(c, t, u)

SpecChildRows == ChildRowsInit /\ [][ChildRowsNext]_vars

----------------------------------------------------------------------------
(* storage: the bucket tutorial-media and the policies on storage.objects *)

FileNames == {"a.png", "b.png"}
Contents == {"v1", "v2"}
\* An object's name is its path, the sequence of its segments: <<file>> at
\* the root of the bucket, <<folder, file>> below a folder. uploadThumbnail
\* names its object `${user.id}/${Date.now()}.${fileExt}`.
ObjectNames ==
  {<<f>> : f \in FileNames} \cup {<<u, f>> : u \in Users, f \in FileNames}

\* storage.foldername(name): the segments before the file name
storage_foldername(name) == SubSeq(name, 1, Len(name) - 1)

\* auth.uid()::text = (storage.foldername(name))[1]; with no session, or
\* with no folder, one side is NULL and the comparison is not true
OwnFolder(caller, name) ==
  LET folder == storage_foldername(name)
  IN caller # Anon /\ Len(folder) >= 1 /\ folder[1] = caller

\* SELECT USING (bucket_id = 'tutorial-media')
ObjectsSelectUsing(caller, name) == TRUE
\* INSERT WITH CHECK (bucket_id = 'tutorial-media'
\*                    AND auth.role() = 'authenticated')
ObjectsInsertCheck(caller, name) == caller # Anon
\* UPDATE / DELETE USING (bucket_id = 'tutorial-media'
\*                        AND auth.uid()::text = (storage.foldername(name))[1])
ObjectsUpdateUsing(caller, name) == OwnFolder(caller, name)
ObjectsDeleteUsing(caller, name) == OwnFolder(caller, name)

\* supabase.storage.from('tutorial-media').upload(name, file), without
\* upsert: a new row of storage.objects
UploadObject(caller, name, content) ==
  /\ caller \in Sessions
  /\ IF ~ObjectsInsertCheck(caller, name)
     THEN /\ storage_last' = StorageResponse("UploadObject", "rls_violation", caller, name)
          /\ UNCHANGED objects
     ELSE IF name \in DOMAIN objects
     THEN /\ storage_last' = StorageResponse("UploadObject", "duplicate", caller, name)
          /\ UNCHANGED objects
     ELSE /\ objects' = [x \in DOMAIN objects \cup {name} |->
                           IF x = name THEN content ELSE objects[x]]
          /\ storage_last' = StorageResponse("UploadObject", "ok", caller, name)
  /\ UNCHANGED outside_storage
  /\ ClientFrame

\* replacing the content of an object: an UPDATE of its row
UpdateObject(caller, name, content) ==
  /\ caller \in Sessions
  /\ IF name \notin DOMAIN objects
     THEN /\ storage_last' = StorageResponse("UpdateObject", "not_found", caller, name)
          /\ UNCHANGED objects
     ELSE IF ~ObjectsUpdateUsing(caller, name)
     THEN /\ storage_last' = StorageResponse("UpdateObject", "rls_filtered", caller, name)
          /\ UNCHANGED objects
     ELSE /\ objects' = [objects EXCEPT ![name] = content]
          /\ storage_last' = StorageResponse("UpdateObject", "ok", caller, name)
  /\ UNCHANGED outside_storage
  /\ ClientFrame

DeleteObject(caller, name) ==
  /\ caller \in Sessions
  /\ IF name \notin DOMAIN objects
     THEN /\ storage_last' = StorageResponse("DeleteObject", "not_found", caller, name)
          /\ UNCHANGED objects
     ELSE IF ~ObjectsDeleteUsing(caller, name)
     THEN /\ storage_last' = StorageResponse("DeleteObject", "rls_filtered", caller, name)
          /\ UNCHANGED objects
     ELSE /\ objects' = Without(objects, {name})
          /\ storage_last' = StorageResponse("DeleteObject", "ok", caller, name)
  /\ UNCHANGED outside_storage
  /\ ClientFrame

\* a download of the object
ReadObject(caller, name) ==
  /\ caller \in Sessions
  /\ storage_last' =
       StorageResponse("ReadObject",
                       IF name \notin DOMAIN objects THEN "not_found"
                       ELSE IF ObjectsSelectUsing(caller, name) THEN "ok"
                       ELSE "rls_filtered",
                       caller, name)
  /\ UNCHANGED <<objects, outside_storage>>
  /\ ClientFrame

StorageNext ==
  \/ \E c \in Callers, n \in ObjectNames, v \in Contents : UploadObject(c, n, v)
  \/ \E c \in Callers, n \in ObjectNames, v \in Contents : UpdateObject(c, n, v)
  \/ \E c \in Callers, n \in ObjectNames : DeleteObject(c, n)
  \/ \E c \in Callers, n \in ObjectNames : ReadObject(c, n)

\* the database after every user of Users has signed up with no full_name
\* metadata, and nothing else has happened
SignedUp ==
  /\ auth_users = Users
  /\ profiles = [u \in Users |-> handle_new_user(Null)]
  /\ tutorials = NoRows
  /\ tutorial_likes = EmptyTable
  /\ tutorial_comments = EmptyTable
  /\ enrollments = EmptyTable
  /\ last = Response("CreateUser", "ok")

StorageInit ==
  /\ SignedUp
  /\ StorageEmpty
  /\ TransactionsIdle
  /\ NoClient
  /\ NoTimestamps
  /\ NoTrip
  /\ NoPage

SpecStorage == StorageInit /\ [][StorageNext]_vars

----------------------------------------------------------------------------
(* concurrent transactions on one tutorial: each user's like / unlike /
   enroll / unenroll runs in a transaction of its own (READ COMMITTED). The
   statement inserts or deletes the user's child row and its AFTER ... FOR
   EACH ROW trigger runs "UPDATE public.tutorials SET likes_count =
   likes_count + 1 WHERE id = ...": the UPDATE takes the lock of the
   tutorials row, waiting while another transaction holds it, then computes
   the new row from the latest committed row, and keeps the lock until its
   transaction ends. The tables of the model are the committed rows. *)

\* the tutorial the transactions write
TxnTutorial == 1
CounterTables == {"tutorial_likes", "enrollments"}

CommittedRows(table) ==
  IF table = "tutorial_likes" THEN tutorial_likes ELSE enrollments

\* the trigger function of the table, run on the committed tutorials rows
CounterTrigger(table, tg_op) ==
  IF table = "tutorial_likes"
  THEN update_tutorial_likes_count(tutorials, tg_op, TxnTutorial)
  ELSE update_tutorial_enrollments_count(tutorials, tg_op, TxnTutorial)

\* user u issues the statement: INSERT of a row u does not have, DELETE of
\* a row u has; the row change stays uncommitted and the trigger is due
BeginStatement(u, table, tg_op) ==
  /\ txn[u].pc = "idle"
  /\ TxnTutorial \in DOMAIN tutorials
  /\ CommittedRows(table)[<<TxnTutorial, u>>] = (IF tg_op = "INSERT" THEN 0 ELSE 1)
  /\ txn' = [txn EXCEPT ![u] = [pc |-> "trigger", table |-> table,
                                 tg_op |-> tg_op, write |-> Null]]
  /\ UNCHANGED <<row_lock, txn_start, database, outside_transactions>>

\* variant: the trigger reads the counter and writes the sum back without
\* the row lock ("SELECT likes_count", then "UPDATE ... SET likes_count = n")
TriggerUpdateUnlocked(u) ==
  /\ txn[u].pc = "trigger"
  /\ txn' = [txn EXCEPT ![u].pc = "updated",
                        ![u].write = CounterTrigger(txn[u].table, txn[u].tg_op)[TxnTutorial]]
  /\ UNCHANGED <<row_lock, txn_start, database, outside_transactions>>

\* the trigger's UPDATE of the tutorials row, under the row lock
TriggerUpdate(u) ==
  /\ txn[u].pc = "trigger"
  /\ row_lock = Anon
  /\ row_lock' = u
  /\ txn' = [txn EXCEPT ![u].pc = "updated",
                        ![u].write = CounterTrigger(txn[u].table, txn[u].tg_op)[TxnTutorial]]
  /\ UNCHANGED <<txn_start, database, outside_transactions>>

\* COMMIT: the child row and the tutorials row of the transaction become
\* the committed rows, the lock is released
Commit(u) ==
  /\ txn[u].pc = "updated"
  /\ txn' = [txn EXCEPT ![u].pc = "committed"]
  /\ row_lock' = IF row_lock = u THEN Anon ELSE row_lock
  /\ tutorials' = [tutorials EXCEPT ![TxnTutorial] = txn[u].write]
  /\ LET n == IF txn[u].tg_op = "INSERT" THEN 1 ELSE 0 IN
     IF txn[u].table = "tutorial_likes"
     THEN /\ tutorial_likes' = [tutorial_likes EXCEPT ![<<TxnTutorial, u>>] = n]
          /\ UNCHANGED enrollments
     ELSE /\ enrollments' = [enrollments EXCEPT ![<<TxnTutorial, u>>] = n]
          /\ UNCHANGED tutorial_likes
  /\ UNCHANGED <<txn_start, auth_users, profiles, tutorial_comments, last,
                 outside_transactions>>

\* ROLLBACK (an error, a lost connection): nothing of the transaction stays
Rollback(u) ==
  /\ txn[u].pc \in {"trigger", "updated"}
  /\ txn' = [txn EXCEPT ![u].pc = "aborted"]
  /\ row_lock' = IF row_lock = u THEN Anon ELSE row_lock
  /\ UNCHANGED <<txn_start, database, outside_transactions>>

TxnNext ==
  \/ \E u \in Users, tb \in CounterTables, op \in {"INSERT", "DELETE"} :
       BeginStatement(u, tb, op)
  \/ \E u \in Users : TriggerUpdate(u)
  \/ \E u \in Users : Commit(u)
  \/ \E u \in Users : Rollback(u)

\* before the transactions: every user signed up, the tutorial of user 1
\* with any likes and enrollments of the users and their counters
TxnInit ==
  /\ auth_users = Users
  /\ profiles = [u \in Users |-> handle_new_user(Null)]
  /\ \E L \in SUBSET Users, E \in SUBSET Users :
       /\ tutorial_likes = [p \in Pairs |->
                              IF p[1] = TxnTutorial /\ p[2] \in L THEN 1 ELSE 0]
       /\ enrollments = [p \in Pairs |->
                           IF p[1] = TxnTutorial /\ p[2] \in E THEN 1 ELSE 0]
       /\ tutorials = [t \in {TxnTutorial} |->
                         [user_id |-> 1, likes_count |-> Cardinality(L),
                          comments_count |-> 0,
                          enrollments_count |-> Cardinality(E)]]
  /\ tutorial_comments = EmptyTable
  /\ last = Response("none", "ok")
  /\ txn = [u \in Users |-> NoTxn]
  /\ row_lock = Anon
  /\ txn_start = tutorials[TxnTutorial]
  /\ StorageEmpty
  /\ NoClient
  /\ NoTimestamps
  /\ NoTrip
  /\ NoPage

SpecTxn == TxnInit /\ [][TxnNext]_vars

----------------------------------------------------------------------------
(* the pages: TutorialDetail (handleLike, handleEnroll, handleSubmitComment),
   CreateTutorial (handleSubmit, uploadThumbnail) and Dashboard
   (handleDeleteTutorial), in one browser. A handler runs to its first
   await in the step named after it; the awaited request is answered in
   a step of the server (or fails on the way); the handler then goes on in
   a step of its own. Several invocations can be under way at once (two
   rapid clicks): each read the component state of the render it was
   created in. *)

\* the signed-in user of the browser, and the tutorial (of another user)
\* that TutorialDetail shows
Viewer == 2
ViewedTutorial == 1
HandlerIds == 1..MaxHandlers

NoHandler ==
  [pc |-> "idle", kind |-> "none", branch |-> "none", target |-> 0,
   thumbnail |-> FALSE, upload |-> "none", result |-> "none",
   toast |-> "none", sent |-> 0, uploads |-> 0, flag |-> FALSE,
   refetch |-> FALSE, navigate |-> "none", seen |-> FALSE]

\* supabase-js answers { error } with an error for a rejected statement and
\* for a request that failed on the way; a DELETE that matches no row is no
\* error
IsError(result) == result \notin {"ok", "not_found", "rls_filtered"}

\* variant: handleLike without the isLiked branch
handleLikeInsertOnly(h) ==
  /\ handlers[h].pc = "idle"
  /\ handlers' = [handlers EXCEPT ![h] =
       IF view.user = Anon
       THEN [NoHandler EXCEPT !.pc = "done", !.kind = "like", !.toast = "error",
                              !.navigate = "/auth"]
       ELSE [NoHandler EXCEPT !.pc = "request", !.kind = "like",
                              !.seen = view.isLiked, !.branch = "insert"]]
  /\ UNCHANGED <<view, database, storage, outside_client>>

\* handleLike, to its await: `if (!user)` toast.error, navigate('/auth') and
\* return; else the delete or the insert, by the isLiked of the render the
\* handler belongs to (seen)
handleLike(h) ==
  /\ handlers[h].pc = "idle"
  /\ handlers' = [handlers EXCEPT ![h] =
       IF view.user = Anon
       THEN [NoHandler EXCEPT !.pc = "done", !.kind = "like", !.toast = "error",
                              !.navigate = "/auth"]
       ELSE [NoHandler EXCEPT !.pc = "request", !.kind = "like",
                              !.seen = view.isLiked,
                              !.branch = IF view.isLiked THEN "delete" ELSE "insert"]]
  /\ UNCHANGED <<view, database, storage, outside_client>>

\* variant: handleEnroll without `if (!user)`
handleEnrollUnguarded(h) ==
  /\ handlers[h].pc = "idle"
  /\ handlers' = [handlers EXCEPT ![h] =
       [NoHandler EXCEPT !.pc = "request", !.kind = "enroll",
                         !.seen = view.isEnrolled,
                         !.branch = IF view.isEnrolled THEN "delete" ELSE "insert"]]
  /\ UNCHANGED <<view, database, storage, outside_client>>

\* handleEnroll, to its await
handleEnroll(h) ==
  /\ handlers[h].pc = "idle"
  /\ handlers' = [handlers EXCEPT ![h] =
       IF view.user = Anon
       THEN [NoHandler EXCEPT !.pc = "done", !.kind = "enroll", !.toast = "error",
                              !.navigate = "/auth"]
       ELSE [NoHandler EXCEPT !.pc = "request", !.kind = "enroll",
                              !.seen = view.isEnrolled,
                              !.branch = IF view.isEnrolled THEN "delete" ELSE "insert"]]
  /\ UNCHANGED <<view, database, storage, outside_client>>

\* handleSubmitComment, to its await; an empty commentText returns at once
handleSubmitComment(h, commentText) ==
  /\ handlers[h].pc = "idle"
  /\ handlers' = [handlers EXCEPT ![h] =
       IF view.user = Anon
       THEN [NoHandler EXCEPT !.pc = "done", !.kind = "comment", !.toast = "error",
                              !.navigate = "/auth"]
       ELSE IF commentText = ""
       THEN [NoHandler EXCEPT !.pc = "done", !.kind = "comment"]
       ELSE [NoHandler EXCEPT !.pc = "request", !.kind = "comment",
                              !.branch = "insert"]]
  /\ UNCHANGED <<view, database, storage, outside_client>>

\* CreateTutorial.handleSubmit, to its first await: tutorialSchema.parse
\* throws on an invalid form (toast.error); with a thumbnail selected the
\* upload comes first, else the insert
handleSubmit(h, valid, thumbnailFile) ==
  /\ handlers[h].pc = "idle"
  /\ view.user # Anon
  /\ handlers' = [handlers EXCEPT ![h] =
       IF ~valid
       THEN [NoHandler EXCEPT !.pc = "done", !.kind = "create", !.toast = "error"]
       ELSE [NoHandler EXCEPT !.pc = IF thumbnailFile THEN "upload" ELSE "request",
                              !.kind = "create", !.branch = "insert",
                              !.thumbnail = thumbnailFile]]
  /\ UNCHANGED <<view, database, storage, outside_client>>

\* Dashboard.handleDeleteTutorial(id) for a tutorial of myTutorials, to its
\* await; without the confirmation it returns at once
handleDeleteTutorial(h, id, confirm) ==
  /\ handlers[h].pc = "idle"
  /\ view.user # Anon
  /\ id \in DOMAIN tutorials /\ tutorials[id].user_id = view.user
  /\ handlers' = [handlers EXCEPT ![h] =
       IF ~confirm
       THEN [NoHandler EXCEPT !.pc = "done", !.kind = "delete", !.target = id]
       ELSE [NoHandler EXCEPT !.pc = "request", !.kind = "delete",
                              !.branch = "delete", !.target = id]]
  /\ UNCHANGED <<view, database, storage, outside_client>>

\* the statement of handler h reaches the database and is answered
Respond(h) ==
  /\ handlers[h].pc = "request"
  /\ LET k == handlers[h].kind
         b == handlers[h].branch
         u == view.user
     IN CASE k = "like" /\ b = "insert" -> InsertLike(u, ViewedTutorial, u)
          [] k = "like" /\ b = "delete" -> DeleteLike(u, ViewedTutorial, u)
          [] k = "enroll" /\ b = "insert" -> InsertEnrollment(u, ViewedTutorial, u)
          [] k = "enroll" /\ b = "delete" -> DeleteEnrollment(u, ViewedTutorial, u)
          [] k = "comment" -> InsertComment(u, ViewedTutorial, u)
          [] k = "delete" -> DeleteTutorial(u, handlers[h].target)
          [] k = "create" ->
               /\ TutorialIds \ DOMAIN tutorials # {}
               /\ InsertTutorial(u, CHOOSE id \in TutorialIds \ DOMAIN tutorials : TRUE,
                                 [user_id |-> u, likes_count |-> 0,
                                  comments_count |-> 0, enrollments_count |-> 0])
  /\ handlers' = [handlers EXCEPT ![h].pc = "response",
                                  ![h].result = last'.result,
                                  ![h].sent = @ + 1]
  /\ UNCHANGED view

\* uploadThumbnail: the upload of `${user.id}/${Date.now()}.${fileExt}`
\* reaches the bucket and is answered
RespondUpload(h, file) ==
  /\ handlers[h].pc = "upload"
  /\ UploadObject(view.user, <<view.user, file>>, "v1")
  /\ handlers' = [handlers EXCEPT ![h].pc = "uploaded",
                                  ![h].upload = storage_last'.result,
                                  ![h].uploads = @ + 1]
  /\ UNCHANGED view

\* the request of handler h was sent and failed on the way (network, server
\* error): nothing is written
RequestFails(h) ==
  /\ handlers[h].pc \in {"request", "upload"}
  /\ handlers' = [handlers EXCEPT ![h] =
       IF handlers[h].pc = "upload"
       THEN [@ EXCEPT !.pc = "uploaded", !.upload = "network_error",
                      !.uploads = @ + 1]
       ELSE [@ EXCEPT !.pc = "response", !.result = "network_error",
                      !.sent = @ + 1]]
  /\ UNCHANGED <<view, database, storage, outside_client>>

\* variant: a rejected insert or delete is sent again
SettleToggleRetry(h) ==
  /\ handlers[h].pc = "response"
  /\ handlers[h].kind \in {"like", "enroll"}
  /\ IF IsError(handlers[h].result)
     THEN /\ handlers' = [handlers EXCEPT ![h].pc = "request"]
          /\ UNCHANGED view
     ELSE /\ view' = IF handlers[h].kind = "like"
                     THEN [view EXCEPT !.isLiked = (handlers[h].branch = "insert")]
                     ELSE [view EXCEPT !.isEnrolled = (handlers[h].branch = "insert")]
          /\ handlers' = [handlers EXCEPT ![h].pc = "done", ![h].toast = "success",
                                          ![h].flag = (handlers[h].branch = "insert"),
                                          ![h].refetch = TRUE]
  /\ UNCHANGED <<database, storage, outside_client>>

\* handleLike / handleEnroll after the await: `if (error) throw error` leads
\* to the catch (console.error, toast.error); else setIsLiked / setIsEnrolled,
\* toast.success and fetchTutorial()
SettleToggle(h) ==
  /\ handlers[h].pc = "response"
  /\ handlers[h].kind \in {"like", "enroll"}
  /\ IF IsError(handlers[h].result)
     THEN /\ handlers' = [handlers EXCEPT ![h].pc = "done", ![h].toast = "error",
                            ![h].flag = IF handlers[h].kind = "like"
                                        THEN view.isLiked ELSE view.isEnrolled]
          /\ UNCHANGED view
     ELSE /\ view' = IF handlers[h].kind = "like"
                     THEN [view EXCEPT !.isLiked = (handlers[h].branch = "insert")]
                     ELSE [view EXCEPT !.isEnrolled = (handlers[h].branch = "insert")]
          /\ handlers' = [handlers EXCEPT ![h].pc = "done", ![h].toast = "success",
                                          ![h].flag = (handlers[h].branch = "insert"),
                                          ![h].refetch = TRUE]
  /\ UNCHANGED <<database, storage, outside_client>>

\* handleSubmitComment, handleSubmit and handleDeleteTutorial after the
\* await of their statement: toast.error in the catch, toast.success else
Settle(h) ==
  /\ handlers[h].pc = "response"
  /\ handlers[h].kind \in {"comment", "create", "delete"}
  /\ handlers' = [handlers EXCEPT ![h].pc = "done",
                    ![h].toast = IF IsError(handlers[h].result)
                                 THEN "error" ELSE "success"]
  /\ UNCHANGED <<view, database, storage, outside_client>>

\* variant: handleSubmit without `if (!thumbnailUrl) return`
AfterUploadUnchecked(h) ==
  /\ handlers[h].pc = "uploaded"
  /\ handlers' = [handlers EXCEPT ![h].pc = "request",
                    ![h].toast = IF IsError(handlers[h].upload) THEN "error" ELSE @]
  /\ UNCHANGED <<view, database, storage, outside_client>>

\* handleSubmit after `await uploadThumbnail(thumbnailFile)`: uploadThumbnail
\* returned null for a failed upload (after toast.error) and handleSubmit
\* returns; else the insert follows
AfterUpload(h) ==
  /\ handlers[h].pc = "uploaded"
  /\ handlers' = [handlers EXCEPT ![h] =
       IF IsError(handlers[h].upload)
       THEN [@ EXCEPT !.pc = "done", !.toast = "error"]
       ELSE [@ EXCEPT !.pc = "request"]]
  /\ UNCHANGED <<view, database, storage, outside_client>>

ClientNext ==
  \/ \E h \in HandlerIds : handleLike(h)
  \/ \E h \in HandlerIds : handleEnroll(h)
  \/ \E h \in HandlerIds, text \in {"", "hi"} : handleSubmitComment(h, text)
  \/ \E h \in HandlerIds, valid \in BOOLEAN, file \in BOOLEAN : handleSubmit(h, valid, file)
  \/ \E h \in HandlerIds, id \in TutorialIds, ok \in BOOLEAN :
       handleDeleteTutorial(h, id, ok)
  \/ \E h \in HandlerIds : Respond(h)
  \/ \E h \in HandlerIds, f \in FileNames : RespondUpload(h, f)
  \/ \E h \in HandlerIds : RequestFails(h)
  \/ \E h \in HandlerIds : SettleToggle(h)
  \/ \E h \in HandlerIds : Settle(h)
  \/ \E h \in HandlerIds : AfterUpload(h)

\* The pages open: every user signed up, ViewedTutorial belongs to user 1,
\* the browser is signed in as Viewer or not at all. The viewer may have a
\* like or an enrollment already; checkLikeStatus / checkEnrollmentStatus
\* have set isLiked / isEnrolled to what they found.
ClientInit ==
  /\ auth_users = Users
  /\ profiles = [u \in Users |-> handle_new_user(Null)]
  /\ \E liked \in 0..1, enrolled \in 0..1 :
       /\ tutorial_likes = [p \in Pairs |->
            IF p = <<ViewedTutorial, Viewer>> THEN liked ELSE 0]
       /\ enrollments = [p \in Pairs |->
            IF p = <<ViewedTutorial, Viewer>> THEN enrolled ELSE 0]
       /\ tutorials = [t \in {ViewedTutorial} |->
            [user_id |-> 1, likes_count |-> liked, comments_count |-> 0,
             enrollments_count |-> enrolled]]
  /\ tutorial_comments = EmptyTable
  /\ last = Response("none", "ok")
  /\ \E user \in {Viewer, Anon} :
       view = [user |-> user,
               isLiked |-> user = Viewer
                           /\ tutorial_likes[<<ViewedTutorial, Viewer>>] = 1,
               isEnrolled |-> user = Viewer
                              /\ enrollments[<<ViewedTutorial, Viewer>>] = 1]
  /\ handlers = [h \in HandlerIds |-> NoHandler]
  /\ StorageEmpty
  /\ TransactionsIdle
  /\ NoTimestamps
  /\ NoTrip
  /\ NoPage

SpecClient == ClientInit /\ [][ClientNext]_vars

----------------------------------------------------------------------------
(* TutorialDetail as it mounts for a signed-in user: isLiked and isEnrolled
   are false, and the effect has sent checkLikeStatus and
   checkEnrollmentStatus. The like and enroll buttons are shown as soon as
   the tutorial is loaded, whether or not the two checks have been
   answered. *)

\* the calls of checkLikeStatus and checkEnrollmentStatus, after those of
\* the click handlers
CheckLikeCall == MaxHandlers + 1
CheckEnrollmentCall == MaxHandlers + 2
CheckCalls == {CheckLikeCall, CheckEnrollmentCall}

\* checkLikeStatus, to its await
checkLikeStatus ==
  [NoHandler EXCEPT !.pc = "request", !.kind = "checkLike"]
\* checkEnrollmentStatus, to its await
checkEnrollmentStatus ==
  [NoHandler EXCEPT !.pc = "request", !.kind = "checkEnrollment"]

\* the select of a check is answered: maybeSingle() gives the row or null
RespondCheck(h) ==
  /\ handlers[h].pc = "request"
  /\ handlers[h].kind \in {"checkLike", "checkEnrollment"}
  /\ LET p == <<ViewedTutorial, view.user>>
         rows == IF handlers[h].kind = "checkLike"
                 THEN SelectLikes(view.user, tutorial_likes)[p]
                 ELSE SelectEnrollments(view.user, enrollments)[p]
     IN handlers' = [handlers EXCEPT ![h].pc = "response",
                       ![h].result = IF rows > 0 THEN "found" ELSE "null",
                       ![h].sent = @ + 1]
  /\ UNCHANGED <<view, database, storage, outside_client>>

\* checkLikeStatus / checkEnrollmentStatus after the await:
\* setIsLiked(!!data) / setIsEnrolled(!!data), or console.error in the catch
SettleCheck(h) ==
  /\ handlers[h].pc = "response"
  /\ handlers[h].kind \in {"checkLike", "checkEnrollment"}
  /\ handlers' = [handlers EXCEPT ![h].pc = "done"]
  /\ view' = IF handlers[h].result \notin {"found", "null"} THEN view
             ELSE IF handlers[h].kind = "checkLike"
             THEN [view EXCEPT !.isLiked = (handlers[h].result = "found")]
             ELSE [view EXCEPT !.isEnrolled = (handlers[h].result = "found")]
  /\ UNCHANGED <<database, storage, outside_client>>

DetailNext ==
  \/ \E h \in HandlerIds : handleLike(h)
  \/ \E h \in HandlerIds : handleEnroll(h)
  \/ \E h \in HandlerIds : Respond(h)
  \/ \E h \in CheckCalls : RespondCheck(h)
  \/ \E h \in HandlerIds \cup CheckCalls : RequestFails(h)
  \/ \E h \in HandlerIds : SettleToggle(h)
  \/ \E h \in CheckCalls : SettleCheck(h)

DetailInit ==
  /\ auth_users = Users
  /\ profiles = [u \in Users |-> handle_new_user(Null)]
  /\ \E liked \in 0..1, enrolled \in 0..1 :
       /\ tutorial_likes = [p \in Pairs |->
            IF p = <<ViewedTutorial, Viewer>> THEN liked ELSE 0]
       /\ enrollments = [p \in Pairs |->
            IF p = <<ViewedTutorial, Viewer>> THEN enrolled ELSE 0]
       /\ tutorials = [t \in {ViewedTutorial} |->
            [user_id |-> 1, likes_count |-> liked, comments_count |-> 0,
             enrollments_count |-> enrolled]]
  /\ tutorial_comments = EmptyTable
  /\ last = Response("none", "ok")
  /\ view = [user |-> Viewer, isLiked |-> FALSE, isEnrolled |-> FALSE]
  /\ handlers = [h \in HandlerIds \cup CheckCalls |->
                   IF h = CheckLikeCall THEN checkLikeStatus
                   ELSE IF h = CheckEnrollmentCall THEN checkEnrollmentStatus
                   ELSE NoHandler]
  /\ StorageEmpty
  /\ TransactionsIdle
  /\ NoTimestamps
  /\ NoTrip
  /\ NoPage

SpecDetail == DetailInit /\ [][DetailNext]_vars

----------------------------------------------------------------------------
(* created_at and updated_at of profiles and tutorials: one row of each
   table, with one content column (body) for all the others. Both columns
   are DEFAULT NOW() NOT NULL; the triggers update_profiles_updated_at and
   update_tutorials_updated_at run update_updated_at_column BEFORE UPDATE,
   FOR EACH ROW. *)

StampedTables == {"profiles", "tutorials"}
StampedColumns == {"body", "created_at", "updated_at"}
Times == 0..MaxClock

\* the SET clauses of an UPDATE (the column lists of an INSERT): any columns
\* with any values
Assignments ==
  UNION {[cols -> Times] : cols \in SUBSET StampedColumns}

\* the row with the assigned columns replaced
Assigned(row, set) ==
  [c \in StampedColumns |-> IF c \in DOMAIN set THEN set[c] ELSE row[c]]

\* variant: the function run by an AFTER UPDATE trigger, where the change
\* of NEW is lost
update_updated_at_column_after(new, time) == new

\* update_updated_at_column: NEW.updated_at = NOW(); RETURN NEW
update_updated_at_column(new, time) == [new EXCEPT !.updated_at = time]

\* time passes
Tick ==
  /\ now < MaxClock
  /\ now' = now + 1
  /\ UNCHANGED <<stamped, stamped_last, outside_timestamps>>

\* INSERT by the row's owner: the columns not listed take their defaults
\* (body 0, the timestamps NOW()); no trigger is BEFORE INSERT
InsertStamped(tbl, set) ==
  /\ tbl \notin DOMAIN stamped
  /\ stamped' = [t \in DOMAIN stamped \cup {tbl} |->
                   IF t = tbl
                   THEN Assigned([body |-> 0, created_at |-> now, updated_at |-> now],
                                 set)
                   ELSE stamped[t]]
  /\ stamped_last' = Response("InsertStamped", "ok")
  /\ UNCHANGED <<now, outside_timestamps>>

\* UPDATE ... SET ...: by the owner of the row it reaches the row, by
\* anyone else it reaches none and fires no trigger
UpdateStamped(tbl, owner, set) ==
  /\ IF tbl \notin DOMAIN stamped
     THEN /\ stamped_last' = Response("UpdateStamped", "not_found")
          /\ UNCHANGED stamped
     ELSE IF ~owner
     THEN /\ stamped_last' = Response("UpdateStamped", "rls_filtered")
          /\ UNCHANGED stamped
     ELSE /\ stamped' = [stamped EXCEPT ![tbl] =
                           update_updated_at_column(Assigned(stamped[tbl], set), now)]
          /\ stamped_last' = Response("UpdateStamped", "ok")
  /\ UNCHANGED <<now, outside_timestamps>>

\* the UPDATE public.tutorials of a counter trigger: a change of a counter
\* (of body), which fires update_tutorials_updated_at as any UPDATE does
CounterUpdate(count) ==
  /\ "tutorials" \in DOMAIN stamped
  /\ stamped' = [stamped EXCEPT !["tutorials"] =
                   update_updated_at_column([stamped["tutorials"] EXCEPT !.body = count],
                                            now)]
  /\ stamped_last' = Response("CounterUpdate", "ok")
  /\ UNCHANGED <<now, outside_timestamps>>

TimestampsNext ==
  \/ Tick
  \/ \E tbl \in StampedTables, set \in Assignments : InsertStamped(tbl, set)
  \/ \E tbl \in StampedTables, owner \in BOOLEAN, set \in Assignments :
       UpdateStamped(tbl, owner, set)
  \/ \E count \in Times : CounterUpdate(count)

TimestampsInit ==
  /\ Init

SpecTimestamps == TimestampsInit /\ [][TimestampsNext]_vars

----------------------------------------------------------------------------
(* A like or an enrollment made and taken back by the same user, as the
   two branches of handleLike / handleEnroll send them. trip keeps what the
   tutorial was before the insert, while nothing else has happened since. *)

\* the child table and the counter column of a round trip
TripRows(table) ==
  IF table = "tutorial_likes" THEN tutorial_likes ELSE enrollments
TripCount(table, row) ==
  IF table = "tutorial_likes" THEN row.likes_count ELSE row.enrollments_count

\* the three counters of a tutorial equal the rows that reference it
CountersConsistent(t) ==
  /\ tutorials[t].likes_count = RowsOf(tutorial_likes, t)
  /\ tutorials[t].comments_count = RowsOf(tutorial_comments, t)
  /\ tutorials[t].enrollments_count = RowsOf(enrollments, t)

Before(table, user_id, tutorial_id) ==
  [phase |-> "forth", table |-> table, user |-> user_id, tutorial |-> tutorial_id,
   rows |-> TripRows(table), count |-> TripCount(table, tutorials[tutorial_id]),
   consistent |-> CountersConsistent(tutorial_id)]

\* handleLike with isLiked false: insert({ tutorial_id: id, user_id: user.id })
Like(user_id, tutorial_id) ==
  /\ trip.phase # "off"
  /\ tutorial_id \in DOMAIN tutorials
  /\ tutorial_likes[<<tutorial_id, user_id>>] = 0
  /\ InsertLike(user_id, tutorial_id, user_id)
  /\ trip' = IF last'.result = "ok"
             THEN Before("tutorial_likes", user_id, tutorial_id)
             ELSE [phase |-> "idle"]

\* handleLike with isLiked true: delete().eq('tutorial_id', id).eq('user_id', user.id)
Unlike(user_id, tutorial_id) ==
  /\ trip.phase = "forth"
  /\ trip.table = "tutorial_likes"
  /\ trip.user = user_id /\ trip.tutorial = tutorial_id
  /\ DeleteLike(user_id, tutorial_id, user_id)
  /\ trip' = [trip EXCEPT !.phase = "back"]

\* handleEnroll with isEnrolled false
Enroll(user_id, tutorial_id) ==
  /\ trip.phase # "off"
  /\ tutorial_id \in DOMAIN tutorials
  /\ enrollments[<<tutorial_id, user_id>>] = 0
  /\ InsertEnrollment(user_id, tutorial_id, user_id)
  /\ trip' = IF last'.result = "ok"
             THEN Before("enrollments", user_id, tutorial_id)
             ELSE [phase |-> "idle"]

\* handleEnroll with isEnrolled true
Unenroll(user_id, tutorial_id) ==
  /\ trip.phase = "forth"
  /\ trip.table = "enrollments"
  /\ trip.user = user_id /\ trip.tutorial = tutorial_id
  /\ DeleteEnrollment(user_id, tutorial_id, user_id)
  /\ trip' = [trip EXCEPT !.phase = "back"]

\* an owner's UPDATE of their tutorial, which may set likes_count; a round
\* trip it falls into is no longer followed
EditTutorial(caller, id, row) ==
  /\ trip.phase # "off"
  /\ UpdateTutorial(caller, id, row)
  /\ trip' = [phase |-> "idle"]

RoundTripNext ==
  \/ \E u \in Users, t \in TutorialIds : Like(u, t)
  \/ \E u \in Users, t \in TutorialIds : Unlike(u, t)
  \/ \E u \in Users, t \in TutorialIds : Enroll(u, t)
  \/ \E u \in Users, t \in TutorialIds : Unenroll(u, t)
  \/ \E c \in Users, id \in TutorialIds :
       \E r \in UpdatedTutorialRows(id) : EditTutorial(c, id, r)

\* every user has signed up and every tutorial of TutorialIds exists, new,
\* with some owner
RoundTripInit ==
  /\ auth_users = Users
  /\ profiles = [u \in Users |-> handle_new_user(Null)]
  /\ tutorials \in [TutorialIds -> [user_id : Users, likes_count : {0},
                                     comments_count : {0}, enrollments_count : {0}]]
  /\ tutorial_likes = EmptyTable
  /\ tutorial_comments = EmptyTable
  /\ enrollments = EmptyTable
  /\ last = Response("none", "ok")
  /\ StorageEmpty
  /\ TransactionsIdle
  /\ NoClient
  /\ NoTimestamps
  /\ trip = [phase |-> "idle"]
  /\ NoPage

SpecRoundTrip == RoundTripInit /\ [][RoundTripNext]_vars

----------------------------------------------------------------------------
(* CreateTutorial: the thumbnail input, tutorialSchema and handleSubmit.
   The form's texts are kept by their lengths, which is all tutorialSchema
   looks at; a file is kept by its size in bytes, 0 for no file. *)

MinTitle == 5
MaxTitle == 200
MinDescription == 20
MaxDescription == 2000
\* file.size > 5 * 1024 * 1024 is refused
MaxThumbnailBytes == 5 * 1024 * 1024

\* the files a user can pick (0: the dialog was closed without a file)
FileSizes ==
  {0, 1, MaxThumbnailBytes - 1, MaxThumbnailBytes, MaxThumbnailBytes + 1,
   2 * MaxThumbnailBytes}
\* the forms a user can submit
FormData ==
  [title : {0, MinTitle - 1, MinTitle, MaxTitle, MaxTitle + 1},
   description : {MinDescription - 1, MinDescription, MaxDescription,
                  MaxDescription + 1},
   category : {"", "programming"},
   difficulty : {"", "beginner"}]

\* variant: the title's max copied from the description's
tutorialSchemaCopied(data) ==
  (IF data.title < MinTitle THEN <<"Title must be at least 5 characters">>
   ELSE IF data.title > MaxDescription THEN <<"Title too long">> ELSE <<>>)
  \o (IF data.description < MinDescription
      THEN <<"Description must be at least 20 characters">>
      ELSE IF data.description > MaxDescription THEN <<"Description too long">>
      ELSE <<>>)
  \o (IF data.category = "" THEN <<"Please select a category">> ELSE <<>>)
  \o (IF data.difficulty = "" THEN <<"Please select a difficulty level">> ELSE <<>>)

\* tutorialSchema.parse(data): the issues it throws, in the order of the
\* fields; none for a valid form
tutorialSchema(data) ==
  (IF data.title < MinTitle THEN <<"Title must be at least 5 characters">>
   ELSE IF data.title > MaxTitle THEN <<"Title too long">> ELSE <<>>)
  \o (IF data.description < MinDescription
      THEN <<"Description must be at least 20 characters">>
      ELSE IF data.description > MaxDescription THEN <<"Description too long">>
      ELSE <<>>)
  \o (IF data.category = "" THEN <<"Please select a category">> ELSE <<>>)
  \o (IF data.difficulty = "" THEN <<"Please select a difficulty level">> ELSE <<>>)

\* what Dashboard and CreateTutorial return: `Loading...` while
\* authLoading, <Navigate to="/auth" replace /> without a user, else their
\* content
Output(component) ==
  IF component.authLoading THEN "Loading..."
  ELSE IF component.user = Anon THEN "Navigate /auth"
  ELSE "content"

\* the buttons and fields of the page are on the screen
Rendered == Output(page) = "content"

\* the guard of Dashboard and CreateTutorial applied to a component: with
\* auth loaded and no user the router leaves for /auth and the component is
\* unmounted
AuthGuard(component) ==
  IF Output(component) = "Navigate /auth"
  THEN [component EXCEPT !.location = "/auth", !.pc = "left"]
  ELSE component

\* the component as it mounts. calls counts the invocations of
\* handleSubmit, uploads and inserts the requests it has sent (uploads by
\* the size of the file, inserts with the users they were sent for), file
\* is the thumbnail the running invocation holds.
CreateTutorialPage(authLoading, user) ==
  AuthGuard(
    [name |-> "CreateTutorial", authLoading |-> authLoading, user |-> user,
     location |-> "/create-tutorial",
     isLoading |-> FALSE, uploadingImage |-> FALSE,
     thumbnailFile |-> 0, thumbnailPreview |-> 0,
     pc |-> "idle", file |-> 0, toast |-> "none", calls |-> 0,
     uploads |-> {}, inserts |-> 0, inserted_by |-> {}])

\* variant: the size test left out
handleThumbnailChangeAnySize(size) ==
  /\ page.name = "CreateTutorial"
  /\ Rendered
  /\ page.pc = "idle"
  /\ page' = IF size = 0 THEN page
             ELSE [page EXCEPT !.thumbnailFile = size, !.thumbnailPreview = size]
  /\ UNCHANGED outside_page

\* handleThumbnailChange: onChange of the file input, which is disabled
\* while isLoading
handleThumbnailChange(size) ==
  /\ page.name = "CreateTutorial"
  /\ Rendered
  /\ page.pc = "idle"
  /\ page' = IF size = 0 THEN page
             ELSE IF size > MaxThumbnailBytes
             THEN [page EXCEPT !.toast = "Image must be less than 5MB"]
             ELSE [page EXCEPT !.thumbnailFile = size, !.thumbnailPreview = size]
  /\ UNCHANGED outside_page

\* the catch and the finally of handleSubmit
CreateTutorial_failed(message) ==
  [page EXCEPT !.pc = "idle", !.toast = message, !.isLoading = FALSE,
               !.uploadingImage = FALSE, !.file = 0]

\* handleSubmit, to its first await. The submit button is disabled while
\* isLoading. An invalid form throws in tutorialSchema.parse: the catch
\* shows the first issue, the finally clears the flags. A valid form is
\* followed by the upload of thumbnailFile when there is one, by the insert
\* when there is none.
CreateTutorial_handleSubmit(data) ==
  /\ page.name = "CreateTutorial"
  /\ Rendered
  /\ page.pc = "idle"
  /\ page.calls < MaxHandlers
  /\ LET issues == tutorialSchema(data)
         started == [page EXCEPT !.calls = @ + 1, !.isLoading = TRUE]
     IN page' =
          IF issues # <<>>
          THEN [started EXCEPT !.toast = issues[1], !.isLoading = FALSE,
                               !.uploadingImage = FALSE]
          ELSE IF page.thumbnailFile # 0
          THEN [started EXCEPT !.pc = "upload", !.uploadingImage = TRUE,
                               !.file = page.thumbnailFile,
                               !.uploads = @ \cup {page.thumbnailFile}]
          ELSE [started EXCEPT !.pc = "insert", !.inserts = @ + 1,
                               !.inserted_by = @ \cup {page.user}]
  /\ UNCHANGED outside_page

\* handleSubmit after `await uploadThumbnail(thumbnailFile)`, by the answer
\* to the upload: uploadThumbnail has shown its toast and returned null for
\* a failed upload, and handleSubmit clears the flags and returns; else the
\* insert is sent
CreateTutorial_uploaded(result) ==
  IF IsError(result)
  THEN CreateTutorial_failed("Failed to upload thumbnail")
  ELSE [page EXCEPT !.pc = "insert", !.uploadingImage = FALSE,
                    !.inserts = @ + 1, !.inserted_by = @ \cup {page.user}]

\* uploadThumbnail: the upload of `${user.id}/${Date.now()}.${fileExt}` is
\* answered by the bucket
uploadThumbnail(fileName) ==
  /\ page.name = "CreateTutorial"
  /\ page.pc = "upload"
  /\ UploadObject(page.user, <<page.user, fileName>>, "v1")
  /\ page' = CreateTutorial_uploaded(storage_last'.result)

\* the upload fails on the way
uploadThumbnailFails ==
  /\ page.name = "CreateTutorial"
  /\ page.pc = "upload"
  /\ page' = CreateTutorial_uploaded("network_error")
  /\ UNCHANGED outside_page

\* handleSubmit after the await of the insert: toast.success and
\* navigate('/dashboard'), or the catch; the finally in both cases
CreateTutorial_inserted(result) ==
  IF IsError(result)
  THEN CreateTutorial_failed("Failed to create tutorial")
  ELSE [page EXCEPT !.pc = "left", !.toast = "Tutorial created successfully!",
                    !.location = "/dashboard", !.isLoading = FALSE,
                    !.uploadingImage = FALSE, !.file = 0]

\* the insert into tutorials is answered
CreateTutorial_insert ==
  /\ page.name = "CreateTutorial"
  /\ page.pc = "insert"
  /\ TutorialIds \ DOMAIN tutorials # {}
  /\ InsertTutorial(page.user, CHOOSE id \in TutorialIds \ DOMAIN tutorials : TRUE,
                    [user_id |-> page.user, likes_count |-> 0,
                     comments_count |-> 0, enrollments_count |-> 0])
  /\ page' = CreateTutorial_inserted(last'.result)

\* the insert fails on the way
CreateTutorial_insertFails ==
  /\ page.name = "CreateTutorial"
  /\ page.pc = "insert"
  /\ page' = CreateTutorial_inserted("network_error")
  /\ UNCHANGED outside_page

----------------------------------------------------------------------------
(* the session as the pages see it *)

\* useAuth(): the session resolves (loading turns false, a stored user
\* appears) and a signed-in user signs out; the page renders again with the
\* new values and its effects on [user] run. The session changes between
\* the requests of the page, not while one is in flight.
AuthChange(loading, user) ==
  /\ page.name \in {"CreateTutorial", "Dashboard"}
  /\ page.pc = "idle"
  /\ <<loading, user>> # <<page.authLoading, page.user>>
  /\ IF page.authLoading
     THEN user = page.user \/ page.user = Anon
     ELSE ~loading /\ user = Anon
  /\ LET changed == [page EXCEPT !.authLoading = loading, !.user = user]
     IN page' = AuthGuard(
          IF page.name = "Dashboard" /\ user # Anon /\ user # page.user
          THEN [changed EXCEPT !.fetch = "request", !.pc = "fetch",
                               !.fetches = @ + 1,
                               !.fetched_by = @ \cup {user}]
          ELSE changed)
  /\ UNCHANGED outside_page

----------------------------------------------------------------------------
(* Dashboard *)

NoCall == [pc |-> "idle", id |-> 0, list |-> {}, outcome |-> "none"]

\* the component as it mounts: loading is true, the effect on [user] calls
\* fetchData if there is a user. calls are the invocations of
\* handleDeleteTutorial, each with the tutorial it deletes and the
\* myTutorials of the render its button belonged to.
DashboardPage(authLoading, user) ==
  AuthGuard(
    [name |-> "Dashboard", authLoading |-> authLoading, user |-> user,
     location |-> "/dashboard", loading |-> TRUE,
     myTutorials |-> {}, enrolledTutorials |-> {},
     pc |-> IF user # Anon THEN "fetch" ELSE "idle",
     fetch |-> IF user # Anon THEN "request" ELSE "none",
     fetches |-> IF user # Anon THEN 1 ELSE 0,
     fetched_by |-> IF user # Anon THEN {user} ELSE {},
     calls |-> [h \in HandlerIds |-> NoCall], toast |-> "none"])

\* fetchData: both selects are answered
Dashboard_fetchData ==
  /\ page.name = "Dashboard"
  /\ page.fetch = "request"
  /\ page' = [page EXCEPT
       !.myTutorials = {id \in DOMAIN tutorials : tutorials[id].user_id = page.user},
       !.enrolledTutorials =
          {id \in TutorialIds : SelectEnrollments(page.user, enrollments)[<<id, page.user>>] > 0},
       !.fetch = "done", !.pc = "idle", !.loading = FALSE]
  /\ UNCHANGED outside_page

\* fetchData: a select fails, the catch and the finally
Dashboard_fetchDataFails ==
  /\ page.name = "Dashboard"
  /\ page.fetch = "request"
  /\ page' = [page EXCEPT !.fetch = "failed", !.pc = "idle", !.loading = FALSE,
                          !.toast = "Failed to load dashboard data"]
  /\ UNCHANGED outside_page

\* the set of calls of handleDeleteTutorial that wait for their answer
DeletesInFlight == {h \in HandlerIds : page.calls[h].pc = "request"}

\* handleDeleteTutorial after the await of the delete: myTutorials is the
\* array of the render the handler was created in
Dashboard_deleted(h, result) ==
  IF IsError(result)
  THEN [page EXCEPT !.calls[h].pc = "done", !.calls[h].outcome = "error",
                    !.toast = "Failed to delete tutorial"]
  ELSE [page EXCEPT !.calls[h].pc = "done", !.calls[h].outcome = "ok",
                    !.toast = "Tutorial deleted successfully",
                    !.myTutorials = page.calls[h].list \ {page.calls[h].id}]

\* a click on the delete button of tutorial id, the dialog answered by confirm
Dashboard_handleDeleteTutorial(h, id, confirm) ==
  /\ page.name = "Dashboard"
  /\ Rendered
  /\ page.pc \in {"idle", "delete"}
  /\ ~page.loading
  /\ id \in page.myTutorials
  /\ page.calls[h].pc = "idle"
  /\ page' = IF confirm
             THEN [page EXCEPT !.calls[h] = [pc |-> "request", id |-> id,
                                              list |-> page.myTutorials,
                                              outcome |-> "none"],
                               !.pc = "delete"]
             ELSE [page EXCEPT !.calls[h] = [pc |-> "done", id |-> id,
                                              list |-> page.myTutorials,
                                              outcome |-> "declined"]]
  /\ UNCHANGED outside_page

\* the page between requests again once no delete waits
Dashboard_settled(next) ==
  IF \E h \in HandlerIds : next.calls[h].pc = "request"
  THEN next
  ELSE [next EXCEPT !.pc = "idle"]

\* the delete of call h is answered
Dashboard_delete(h) ==
  /\ page.name = "Dashboard"
  /\ h \in DeletesInFlight
  /\ DeleteTutorial(page.user, page.calls[h].id)
  /\ page' = Dashboard_settled(Dashboard_deleted(h, last'.result))

\* the delete of call h fails on the way
Dashboard_deleteFails(h) ==
  /\ page.name = "Dashboard"
  /\ h \in DeletesInFlight
  /\ page' = Dashboard_settled(Dashboard_deleted(h, "network_error"))
  /\ UNCHANGED outside_page

----------------------------------------------------------------------------
(* Browse *)

Categories == {"all", "programming", "design"}
Difficulties == {"all", "beginner"}
Sorts == {"newest", "popular", "enrolled"}
Searches == {"", "react"}
Filters ==
  [selectedCategory : Categories, selectedDifficulty : Difficulties,
   sortBy : Sorts, searchQuery : Searches]

\* the content columns of the tutorials a Browse page reads: odd ids are
\* programming tutorials, tutorial 1 is for beginners, the tutorials from 2
\* on mention react, a larger id was created later
category_of(id) == IF id % 2 = 1 THEN "programming" ELSE "design"
difficulty_of(id) == IF id = 1 THEN "beginner" ELSE "advanced"
ilike(id, searchQuery) == searchQuery = "react" /\ id >= 2
created_at_of(id) == id

\* the catalogue a Browse page reads: tutorial 1 has the most enrollments,
\* the last tutorial the most likes
BrowseTutorials ==
  [id \in TutorialIds |-> [user_id |-> Viewer, likes_count |-> id,
                            comments_count |-> 0,
                            enrollments_count |-> MaxTutorials + 1 - id]]

\* ORDER BY key DESC
RECURSIVE OrderDescending(_, _)
OrderDescending(ids, key) ==
  IF ids = {} THEN <<>>
  ELSE LET top == CHOOSE x \in ids : \A y \in ids : key[y] <= key[x]
       IN <<top>> \o OrderDescending(ids \ {top}, key)

\* the query fetchTutorials builds from the filters of its render
Query(filters) ==
  LET rows == {id \in DOMAIN tutorials :
                 /\ filters.selectedCategory # "all"
                       => category_of(id) = filters.selectedCategory
                 /\ filters.selectedDifficulty # "all"
                       => difficulty_of(id) = filters.selectedDifficulty
                 /\ filters.searchQuery # ""
                       => ilike(id, filters.searchQuery)}
      key == [id \in rows |->
                CASE filters.sortBy = "popular" -> tutorials[id].likes_count
                  [] filters.sortBy = "enrolled" -> tutorials[id].enrollments_count
                  [] OTHER -> created_at_of(id)]
  IN OrderDescending(rows, key)

\* the component as it mounts, opened as /browse or /browse?category=...:
\* loading is true and the effect has called fetchTutorials. fetches are
\* the calls of fetchTutorials in the order they were made, each with the
\* filters of its render.
BrowsePage(category) ==
  LET filters == [selectedCategory |-> category, selectedDifficulty |-> "all",
                  sortBy |-> "newest", searchQuery |-> ""]
  IN [name |-> "Browse", location |-> "/browse", pc |-> "idle",
      tutorials |-> <<>>, loading |-> TRUE, filters |-> filters,
      fetches |-> <<[filters |-> filters, pc |-> "request"]>>]

\* setSelectedCategory, setSelectedDifficulty, setSortBy, setSearchQuery
\* with a new value: the render with the new state runs the effect, which
\* calls fetchTutorials (setLoading(true) and the request)
Browse_setFilters(filters) ==
  /\ page.name = "Browse"
  /\ Len(page.fetches) <= MaxHandlers
  /\ \E field \in DOMAIN filters :
       /\ filters[field] # page.filters[field]
       /\ filters = [page.filters EXCEPT ![field] = filters[field]]
  /\ page' = [page EXCEPT !.filters = filters, !.loading = TRUE,
                          !.fetches = Append(@, [filters |-> filters,
                                                 pc |-> "request"])]
  /\ UNCHANGED outside_page

\* the request of call i is answered: setTutorials(data) and the finally
Browse_fetchTutorials(i) ==
  /\ page.name = "Browse"
  /\ i \in DOMAIN page.fetches
  /\ page.fetches[i].pc = "request"
  /\ page' = [page EXCEPT !.tutorials = Query(page.fetches[i].filters),
                          !.loading = FALSE, !.fetches[i].pc = "done"]
  /\ UNCHANGED outside_page

\* the request of call i fails: the catch logs, the finally
Browse_fetchTutorialsFails(i) ==
  /\ page.name = "Browse"
  /\ i \in DOMAIN page.fetches
  /\ page.fetches[i].pc = "request"
  /\ page' = [page EXCEPT !.loading = FALSE, !.fetches[i].pc = "failed"]
  /\ UNCHANGED outside_page

----------------------------------------------------------------------------
(* TutorialDetail: the comment form *)

\* the texts a user can type: a space, a letter
Chars == {" ", "a"}
RECURSIVE TextsOfLength(_)
TextsOfLength(n) ==
  IF n = 0 THEN {<<>>}
  ELSE {Append(text, c) : text \in TextsOfLength(n - 1), c \in Chars}
Texts == UNION {TextsOfLength(n) : n \in 0..MaxText}

\* String.prototype.trim: the white space at both ends goes
RECURSIVE trimStart(_)
trimStart(text) ==
  IF text # <<>> /\ Head(text) = " " THEN trimStart(Tail(text)) ELSE text
RECURSIVE trimEnd(_)
trimEnd(text) ==
  IF text # <<>> /\ text[Len(text)] = " "
  THEN trimEnd(SubSeq(text, 1, Len(text) - 1))
  ELSE text
trim(text) == trimEnd(trimStart(text))

\* the component as it mounts on /tutorial/:id: loading is true, the effect
\* has called fetchTutorial and fetchComments. fetching counts the calls of
\* fetchTutorial that wait for their answer, fetched those made; sent is the
\* content of the insert in flight, posted the contents inserted.
TutorialDetailPage(user) ==
  [name |-> "TutorialDetail", user |-> user, location |-> "/tutorial/:id",
   loading |-> TRUE, tutorial |-> 0, fetching |-> 1, fetched |-> 1,
   commentText |-> <<>>, submittingComment |-> FALSE,
   pc |-> "idle", sent |-> <<>>, posted |-> <<>>, inserts |-> 0,
   calls |-> 0, toast |-> "none"]

\* fetchTutorial is answered: the row, or the error of .single() without one
TutorialDetail_fetchTutorial ==
  /\ page.name = "TutorialDetail"
  /\ page.fetching > 0
  /\ page' = IF ViewedTutorial \in DOMAIN tutorials
             THEN [page EXCEPT !.tutorial = ViewedTutorial, !.loading = FALSE,
                               !.fetching = @ - 1]
             ELSE [page EXCEPT !.toast = "Failed to load tutorial",
                               !.loading = FALSE, !.fetching = @ - 1]
  /\ UNCHANGED outside_page

\* variant: fetchTutorial with setLoading(false) after the await in the try
TutorialDetail_fetchTutorialFailsNoFinally ==
  /\ page.name = "TutorialDetail"
  /\ page.fetching > 0
  /\ page' = [page EXCEPT !.toast = "Failed to load tutorial",
                          !.fetching = @ - 1]
  /\ UNCHANGED outside_page

\* fetchTutorial fails on the way: the catch and the finally
TutorialDetail_fetchTutorialFails ==
  /\ page.name = "TutorialDetail"
  /\ page.fetching > 0
  /\ page' = [page EXCEPT !.toast = "Failed to load tutorial",
                          !.loading = FALSE, !.fetching = @ - 1]
  /\ UNCHANGED outside_page

\* the comment form is on the screen: the tutorial is shown to a user
FormShown ==
  /\ page.name = "TutorialDetail"
  /\ ~page.loading /\ page.tutorial # 0
  /\ page.user # Anon

\* the Textarea's onChange; it is disabled while submittingComment
setCommentText(text) ==
  /\ FormShown
  /\ ~page.submittingComment
  /\ text # page.commentText
  /\ page' = [page EXCEPT !.commentText = text]
  /\ UNCHANGED outside_page

\* variant: handleSubmitComment sending the text as typed
TutorialDetail_handleSubmitCommentAsTyped ==
  /\ FormShown
  /\ trim(page.commentText) # <<>> /\ ~page.submittingComment
  /\ page.calls < MaxHandlers
  /\ page' = IF page.user = Anon
             THEN [page EXCEPT !.toast = "Please sign in to comment",
                               !.location = "/auth", !.pc = "left",
                               !.calls = @ + 1]
             ELSE IF trim(page.commentText) = <<>>
             THEN [page EXCEPT !.calls = @ + 1]
             ELSE [page EXCEPT !.submittingComment = TRUE, !.pc = "insert",
                               !.sent = page.commentText,
                               !.inserts = @ + 1, !.calls = @ + 1]
  /\ UNCHANGED outside_page

\* the form is submitted (its button is disabled for a blank text and while
\* submittingComment): handleSubmitComment to its await
TutorialDetail_handleSubmitComment ==
  /\ FormShown
  /\ trim(page.commentText) # <<>> /\ ~page.submittingComment
  /\ page.calls < MaxHandlers
  /\ page' = IF page.user = Anon
             THEN [page EXCEPT !.toast = "Please sign in to comment",
                               !.location = "/auth", !.pc = "left",
                               !.calls = @ + 1]
             ELSE IF trim(page.commentText) = <<>>
             THEN [page EXCEPT !.calls = @ + 1]
             ELSE [page EXCEPT !.submittingComment = TRUE, !.pc = "insert",
                               !.sent = trim(page.commentText),
                               !.inserts = @ + 1, !.calls = @ + 1]
  /\ UNCHANGED outside_page

\* handleSubmitComment after the await: toast.success, setCommentText(''),
\* fetchComments() and fetchTutorial(), or the catch; the finally
TutorialDetail_commented(result) ==
  IF IsError(result)
  THEN [page EXCEPT !.toast = "Failed to post comment", !.pc = "idle",
                    !.submittingComment = FALSE]
  ELSE [page EXCEPT !.toast = "Comment posted!", !.pc = "idle",
                    !.commentText = <<>>, !.posted = Append(@, page.sent),
                    !.fetching = @ + 1, !.fetched = @ + 1,
                    !.submittingComment = FALSE]

\* the insert into tutorial_comments is answered
TutorialDetail_insertComment ==
  /\ page.name = "TutorialDetail"
  /\ page.pc = "insert"
  /\ InsertComment(page.user, ViewedTutorial, page.user)
  /\ page' = TutorialDetail_commented(last'.result)

\* the insert fails on the way
TutorialDetail_insertCommentFails ==
  /\ page.name = "TutorialDetail"
  /\ page.pc = "insert"
  /\ page' = TutorialDetail_commented("network_error")
  /\ UNCHANGED outside_page

----------------------------------------------------------------------------
(* Home *)

FeaturedLimit == 3

\* the component as it mounts: loading is true, the effect has called
\* fetchFeaturedTutorials
HomePage ==
  [name |-> "Home", location |-> "/", pc |-> "idle", loading |-> TRUE,
   featuredTutorials |-> <<>>, fetch |-> "request"]

\* fetchFeaturedTutorials is answered: the three tutorials with the most likes
fetchFeaturedTutorials ==
  /\ page.name = "Home"
  /\ page.fetch = "request"
  /\ LET data == OrderDescending(DOMAIN tutorials,
                                 [id \in DOMAIN tutorials |-> tutorials[id].likes_count])
     IN page' = [page EXCEPT
          !.featuredTutorials =
             SubSeq(data, 1, IF Len(data) < FeaturedLimit THEN Len(data)
                             ELSE FeaturedLimit),
          !.fetch = "done", !.loading = FALSE]
  /\ UNCHANGED outside_page

\* fetchFeaturedTutorials fails: the catch logs, the finally
fetchFeaturedTutorialsFails ==
  /\ page.name = "Home"
  /\ page.fetch = "request"
  /\ page' = [page EXCEPT !.fetch = "failed", !.loading = FALSE]
  /\ UNCHANGED outside_page

PagesNext ==
  \/ \E size \in FileSizes : handleThumbnailChange(size)
  \/ \E data \in FormData : CreateTutorial_handleSubmit(data)
  \/ \E f \in FileNames : uploadThumbnail(f)
  \/ uploadThumbnailFails
  \/ CreateTutorial_insert
  \/ CreateTutorial_insertFails
  \/ \E loading \in BOOLEAN, user \in {Anon, Viewer} : AuthChange(loading, user)
  \/ Dashboard_fetchData
  \/ Dashboard_fetchDataFails
  \/ \E h \in HandlerIds, id \in TutorialIds, confirm \in BOOLEAN :
        Dashboard_handleDeleteTutorial(h, id, confirm)
  \/ \E h \in HandlerIds : Dashboard_delete(h)
  \/ \E h \in HandlerIds : Dashboard_deleteFails(h)
  \/ \E filters \in Filters : Browse_setFilters(filters)
  \/ \E i \in 1..(MaxHandlers + 1) : Browse_fetchTutorials(i)
  \/ \E i \in 1..(MaxHandlers + 1) : Browse_fetchTutorialsFails(i)
  \/ TutorialDetail_fetchTutorial
  \/ TutorialDetail_fetchTutorialFails
  \/ \E text \in Texts : setCommentText(text)
  \/ TutorialDetail_handleSubmitComment
  \/ TutorialDetail_insertComment
  \/ TutorialDetail_insertCommentFails
  \/ fetchFeaturedTutorials
  \/ fetchFeaturedTutorialsFails

AuthStates == BOOLEAN \X {Anon, Viewer}

\* the tutorials of the catalogue, one per id, all of Viewer
OwnTutorials ==
  [id \in TutorialIds |-> [user_id |-> Viewer, likes_count |-> 0,
                            comments_count |-> 0, enrollments_count |-> 0]]

\* a page is open in the browser of Viewer; every user has signed up.
\* CreateTutorial opens on an empty catalogue, Dashboard on the tutorials of
\* Viewer, Browse and Home on a catalogue with distinct counters,
\* TutorialDetail on its tutorial or on the id of none.
PagesInit ==
  /\ auth_users = Users
  /\ profiles = [u \in Users |-> handle_new_user(Null)]
  /\ \/ /\ tutorials = NoRows
        /\ page \in {CreateTutorialPage(a[1], a[2]) : a \in AuthStates}
     \/ /\ tutorials = OwnTutorials
        /\ page \in {DashboardPage(a[1], a[2]) : a \in AuthStates}
     \/ /\ tutorials = BrowseTutorials
        /\ page \in {BrowsePage(category) : category \in Categories}
                      \cup {HomePage}
     \/ /\ tutorials \in {NoRows, [id \in {ViewedTutorial} |-> OwnTutorials[id]]}
        /\ page \in {TutorialDetailPage(user) : user \in {Anon, Viewer}}
  /\ tutorial_likes = EmptyTable
  /\ tutorial_comments = EmptyTable
  /\ enrollments = EmptyTable
  /\ last = Response("none", "ok")
  /\ StorageEmpty
  /\ TransactionsIdle
  /\ NoClient
  /\ NoTimestamps
  /\ NoTrip

SpecPages == PagesInit /\ [][PagesNext]_vars

\* a request of the page is answered, or fails
Settles ==
  \/ \E f \in FileNames : uploadThumbnail(f)
  \/ uploadThumbnailFails
  \/ CreateTutorial_insert
  \/ CreateTutorial_insertFails
  \/ Dashboard_fetchData
  \/ Dashboard_fetchDataFails
  \/ \E h \in HandlerIds : Dashboard_delete(h)
  \/ \E h \in HandlerIds : Dashboard_deleteFails(h)
  \/ \E i \in 1..(MaxHandlers + 1) : Browse_fetchTutorials(i)
  \/ \E i \in 1..(MaxHandlers + 1) : Browse_fetchTutorialsFails(i)
  \/ TutorialDetail_fetchTutorial
  \/ TutorialDetail_fetchTutorialFails
  \/ TutorialDetail_insertComment
  \/ TutorialDetail_insertCommentFails
  \/ fetchFeaturedTutorials
  \/ fetchFeaturedTutorialsFails

\* every awaited request settles: the promise of supabase-js resolves with
\* data or with an error
FairSpecPages == SpecPages /\ WF_vars(Settles)

----------------------------------------------------------------------------
(* App: the routes, and the links of the pages *)

Static(segment) == [kind |-> "static", value |-> segment]
Param(name) == [kind |-> "param", value |-> name]

\* <Routes> of App, in the order written; the path "*" is the catch-all
Routes ==
  << [path |-> <<>>, element |-> "Home", layout |-> TRUE],
     [path |-> <<Static("auth")>>, element |-> "Auth", layout |-> FALSE],
     [path |-> <<Static("browse")>>, element |-> "Browse", layout |-> TRUE],
     [path |-> <<Static("dashboard")>>, element |-> "Dashboard", layout |-> TRUE],
     [path |-> <<Static("create-tutorial")>>, element |-> "CreateTutorial",
      layout |-> TRUE],
     [path |-> <<Static("tutorial"), Param("id")>>, element |-> "TutorialDetail",
      layout |-> TRUE] >>

CatchAll == [path |-> "*", element |-> "NotFound", layout |-> FALSE]

\* a route path matches a pathname segment by segment, a :param matching
\* any segment
PathMatches(path, pathname) ==
  /\ Len(path) = Len(pathname)
  /\ \A i \in DOMAIN path :
       path[i].kind = "static" => path[i].value = pathname[i]

\* the route <Routes> renders for a pathname: a route whose path matches,
\* the catch-all when there is none
MatchRoute(pathname) ==
  IF \E i \in DOMAIN Routes : PathMatches(Routes[i].path, pathname)
  THEN Routes[CHOOSE i \in DOMAIN Routes : PathMatches(Routes[i].path, pathname)]
  ELSE CatchAll

\* `${tutorial.id}` in a link
IdSegment(id) == ToString(id)

To(pathname, search) == [pathname |-> pathname, search |-> search]

\* the targets of the links and navigate() calls of Layout
LayoutLinks ==
  {To(<<>>, ""), To(<<"browse">>, ""), To(<<"create-tutorial">>, ""),
   To(<<"dashboard">>, ""), To(<<"profile">>, ""), To(<<"auth">>, "")}

\* the targets of the links, navigate() calls and <Navigate> of a page
PageLinks(element) ==
  CASE element = "Home" ->
         {To(<<"browse">>, ""), To(<<"create-tutorial">>, ""), To(<<"auth">>, "")}
         \cup {To(<<"browse">>, category) : category \in Categories \ {"all"}}
         \cup {To(<<"tutorial", IdSegment(id)>>, "") : id \in TutorialIds}
    [] element = "Browse" ->
         {To(<<"tutorial", IdSegment(id)>>, "") : id \in TutorialIds}
    [] element = "Dashboard" ->
         {To(<<"create-tutorial">>, ""), To(<<"browse">>, ""), To(<<"auth">>, "")}
         \cup {To(<<"tutorial", IdSegment(id)>>, "") : id \in TutorialIds}
         \cup {To(<<"edit-tutorial", IdSegment(id)>>, "") : id \in TutorialIds}
    [] element = "TutorialDetail" ->
         {To(<<"auth">>, ""), To(<<"browse">>, "")}
         \cup {To(<<"edit-tutorial", IdSegment(id)>>, "") : id \in TutorialIds}
    [] element = "CreateTutorial" ->
         {To(<<"dashboard">>, ""), To(<<"auth">>, "")}
    [] OTHER -> {}

Targets == LayoutLinks \cup UNION {PageLinks(Routes[i].element) : i \in DOMAIN Routes}

\* the app at a location: the route rendered for it, and the pathnames
\* visited before
RouterPage(location, history) ==
  [name |-> "Router", location |-> location, pc |-> "idle",
   route |-> MatchRoute(location.pathname), history |-> history]

\* a click on a link of the page shown, or a navigate() of one of its handlers
navigate(target) ==
  /\ page.name = "Router"
  /\ Len(page.history) < MaxHandlers + 1
  /\ target \in PageLinks(page.route.element)
                  \cup (IF page.route.layout THEN LayoutLinks ELSE {})
  /\ page' = RouterPage(target, Append(page.history, page.location.pathname))
  /\ UNCHANGED outside_page

RouterNext == \E target \in Targets : navigate(target)

\* the app opened at /
RouterInit ==
  /\ auth_users = Users
  /\ profiles = [u \in Users |-> handle_new_user(Null)]
  /\ tutorials = OwnTutorials
  /\ tutorial_likes = EmptyTable
  /\ tutorial_comments = EmptyTable
  /\ enrollments = EmptyTable
  /\ last = Response("none", "ok")
  /\ StorageEmpty
  /\ TransactionsIdle
  /\ NoClient
  /\ NoTimestamps
  /\ NoTrip
  /\ page = RouterPage(To(<<>>, ""), <<>>)

SpecRouter == RouterInit /\ [][RouterNext]_vars

----------------------------------------------------------------------------
(* the pages and a TutorialDetail tab, with and without a user *)

\* a TutorialDetail tab is open
TabOpen == handlers # <<>>

GuardsNext ==
  \/ \E h \in HandlerIds : TabOpen /\ handleLike(h)
  \/ \E h \in HandlerIds : TabOpen /\ handleEnroll(h)
  \/ \E h \in HandlerIds, text \in {"", "hi"} :
        TabOpen /\ handleSubmitComment(h, text)
  \/ \E h \in HandlerIds : TabOpen /\ Respond(h)
  \/ \E h \in HandlerIds : TabOpen /\ RequestFails(h)
  \/ \E h \in HandlerIds : TabOpen /\ SettleToggle(h)
  \/ \E h \in HandlerIds : TabOpen /\ Settle(h)
  \/ PagesNext

GuardsInit == ClientInit \/ PagesInit

SpecGuards == GuardsInit /\ [][GuardsNext]_vars

----------------------------------------------------------------------------
(* properties *)

Tables == <<tutorial_likes, tutorial_comments, enrollments>>
LikesOf(t) == RowsOf(tutorial_likes, t)
CommentsOf(t) == RowsOf(tutorial_comments, t)
EnrollmentsOf(t) == RowsOf(enrollments, t)

\* C1: every tutorial's three counters equal the numbers of like, comment
\* and enrollment rows that reference it, in every reachable state.
C1_CountersEqualRows ==
  \A t \in DOMAIN tutorials :
    /\ tutorials[t].likes_count = LikesOf(t)
    /\ tutorials[t].comments_count = CommentsOf(t)
    /\ tutorials[t].enrollments_count = EnrollmentsOf(t)

\* C2: every counter of every tutorial is >= 0 in every reachable state.
C2_CountersNonNegative ==
  \A t \in DOMAIN tutorials :
    /\ tutorials[t].likes_count >= 0
    /\ tutorials[t].comments_count >= 0
    /\ tutorials[t].enrollments_count >= 0

\* C3: a (tutorial, user) pair never has two like rows or two enrollment
\* rows, and an insert for a pair that has its row is rejected and leaves the
\* two tables and every tutorial row, counters included, as they were.
C3_OnePerPair ==
  /\ [](\A p \in Pairs : tutorial_likes[p] <= 1 /\ enrollments[p] <= 1)
  /\ [][/\ last'.op = "InsertLike" =>
            \A t \in TutorialIds, u \in Users :
              tutorial_likes[<<t, u>>] >= 1 =>
                \A c \in Callers :
                  InsertLike(c, t, u) =>
                    /\ last'.result \in {"unique_violation", "rls_violation"}
                    /\ UNCHANGED <<tutorials, tutorial_likes, enrollments>>
        /\ last'.op = "InsertEnrollment" =>
            \A t \in TutorialIds, u \in Users :
              enrollments[<<t, u>>] >= 1 =>
                \A c \in Callers :
                  InsertEnrollment(c, t, u) =>
                    /\ last'.result \in {"unique_violation", "rls_violation"}
                    /\ UNCHANGED <<tutorials, tutorial_likes, enrollments>>]_vars

\* a second enrollment of the same user was rejected, the counter is still 1
C3_Witness ==
  /\ last = Response("InsertEnrollment", "unique_violation")
  /\ \E t \in DOMAIN tutorials :
       tutorials[t].enrollments_count = 1 /\ EnrollmentsOf(t) = 1

TutorialOps == {"InsertTutorial", "UpdateTutorial", "DeleteTutorial"}

\* C4: a request on tutorials that the schema layer accepts is an insert of a
\* row whose user_id is the caller, or an update or delete by the caller that
\* is the row's user_id; every other insert, update or delete request leaves
\* the tutorials and their child rows as they were.
C4_TutorialOwnerOnly ==
  [][last'.op \in TutorialOps =>
       IF last'.result = "ok"
       THEN \A c \in Callers, id \in TutorialIds :
              /\ \A r \in NewTutorialRows :
                   InsertTutorial(c, id, r) => r.user_id = c
              /\ id \in DOMAIN tutorials =>
                   /\ DeleteTutorial(c, id) => tutorials[id].user_id = c
                   /\ \A r \in UpdatedTutorialRows(id) :
                        UpdateTutorial(c, id, r) => tutorials[id].user_id = c
       ELSE UNCHANGED <<tutorials, Tables>>]_vars

\* a delete of another user's tutorial was attempted and the row is there
C4_Witness ==
  /\ last = Response("DeleteTutorial", "rls_filtered")
  /\ tutorials # NoRows

\* C5 as stated: a like, comment or enrollment row leaves its table only by
\* a request of the caller that is the row's user_id; no request of another
\* caller, the owner of the tutorial included, removes it.
C5_OnlyOwnDelete ==
  [][(Tables' # Tables /\ last'.op # "DeleteUser") =>
       \A p \in Pairs :
         (\/ tutorial_likes'[p] < tutorial_likes[p]
          \/ tutorial_comments'[p] < tutorial_comments[p]
          \/ enrollments'[p] < enrollments[p])
           => \/ DeleteLike(p[2], p[1], p[2])
              \/ DeleteComment(p[2], p[1], p[2])
              \/ DeleteEnrollment(p[2], p[1], p[2])
              \/ DeleteTutorial(p[2], p[1])]_vars

ChildOps ==
  {"InsertLike", "DeleteLike", "InsertComment", "DeleteComment",
   "InsertEnrollment", "DeleteEnrollment"}

\* a row of the pair p left a child table by the cascade of a deletion
Cascaded(p) ==
  \/ last'.op = "DeleteUser"
  \/ /\ p[1] \in DOMAIN tutorials
     /\ DeleteTutorial(tutorials[p[1]].user_id, p[1])

\* C5, amended: an insert or delete on a child table that the schema layer
\* accepts is by the caller that is the row's user_id, and any other changes
\* no child table and no tutorial; a row appears only by its user's own
\* insert and disappears only by its user's own delete or by the cascade of
\* the deletion of its tutorial (by the tutorial's owner) or of an identity.
C5_ChildRowsOwnerOnly ==
  [][/\ last'.op \in ChildOps =>
          IF last'.result = "ok"
          THEN \A c \in Callers, t \in TutorialIds, u \in Users :
                 c # u =>
                   /\ ~InsertLike(c, t, u) /\ ~DeleteLike(c, t, u)
                   /\ ~InsertComment(c, t, u) /\ ~DeleteComment(c, t, u)
                   /\ ~InsertEnrollment(c, t, u) /\ ~DeleteEnrollment(c, t, u)
          ELSE UNCHANGED <<Tables, tutorials>>
     /\ Tables' # Tables =>
          \A p \in Pairs :
            /\ tutorial_likes'[p] > tutorial_likes[p]
                 => InsertLike(p[2], p[1], p[2])
            /\ tutorial_comments'[p] > tutorial_comments[p]
                 => InsertComment(p[2], p[1], p[2])
            /\ enrollments'[p] > enrollments[p]
                 => InsertEnrollment(p[2], p[1], p[2])
            /\ tutorial_likes'[p] < tutorial_likes[p]
                 => DeleteLike(p[2], p[1], p[2]) \/ Cascaded(p)
            /\ tutorial_comments'[p] < tutorial_comments[p]
                 => DeleteComment(p[2], p[1], p[2]) \/ Cascaded(p)
            /\ enrollments'[p] < enrollments[p]
                 => DeleteEnrollment(p[2], p[1], p[2]) \/ Cascaded(p)]_vars

\* a delete of another user's like was attempted, and the like is there
C5_Witness ==
  /\ last = Response("DeleteLike", "rls_filtered")
  /\ RowCount(tutorial_likes) > 0

\* C6: a read of enrollments returns to a caller only rows whose user_id is
\* the caller, nothing to a caller without a session, and the same rows
\* whatever enrollment rows other users hold; a read of likes or comments
\* returns every row to every caller.
C6_EnrollmentsPrivate ==
  \A c \in Callers :
    /\ \A p \in Pairs : SelectEnrollments(c, enrollments)[p] > 0 => p[2] = c
    /\ \A p \in Pairs : p[2] = c =>
         SelectEnrollments(c, enrollments)[p] = enrollments[p]
    /\ c = Anon => SelectEnrollments(c, enrollments) = EmptyTable
    /\ \A other \in [Pairs -> 0..1] :
         (\A p \in Pairs : p[2] = c => other[p] = enrollments[p])
           => SelectEnrollments(c, other) = SelectEnrollments(c, enrollments)
    /\ SelectLikes(c, tutorial_likes) = tutorial_likes
    /\ SelectComments(c, tutorial_comments) = tutorial_comments

\* two users are enrolled, each reads its own row and not the other's
C6_Witness ==
  \E c \in Users, d \in Users, t \in TutorialIds :
    /\ c # d
    /\ enrollments[<<t, c>>] = 1 /\ enrollments[<<t, d>>] = 1
    /\ SelectEnrollments(c, enrollments)[<<t, c>>] = 1
    /\ SelectEnrollments(c, enrollments)[<<t, d>>] = 0

\* C7: every like, comment and enrollment row references a tutorial and a
\* profile that exist; none references a deleted tutorial.
C7_NoOrphans ==
  \A p \in Pairs :
    (tutorial_likes[p] > 0 \/ tutorial_comments[p] > 0 \/ enrollments[p] > 0)
      => p[1] \in DOMAIN tutorials /\ p[2] \in DOMAIN profiles

\* a tutorial was deleted while another tutorial keeps its child rows
C7_Witness ==
  /\ last = Response("DeleteTutorial", "ok")
  /\ ChildRows > 0
  /\ \E t \in TutorialIds : t \notin DOMAIN tutorials

\* the counter left by the DELETE triggers of n rows: unchanged for no row,
\* else lowered by n and held at the floor 0
Lowered(count, n) == IF n = 0 THEN count ELSE Greatest(count - n, 0)

\* C8: deleting an identity deletes its profile, the tutorials the profile
\* owns with all their child rows, and the likes, comments and enrollments
\* the user made on other tutorials; each surviving tutorial keeps its owner
\* and has each counter lowered by the number of that user's rows on it
\* (floor 0), and the rows of other users on surviving tutorials stay.
C8_IdentityCascade ==
  [][last'.op = "DeleteUser" =>
       \A id \in auth_users \ auth_users' :
         /\ id \notin DOMAIN profiles'
         /\ \A t \in DOMAIN tutorials :
              IF tutorials[t].user_id = id
              THEN t \notin DOMAIN tutorials'
              ELSE /\ t \in DOMAIN tutorials'
                   /\ tutorials'[t].user_id = tutorials[t].user_id
                   /\ tutorials'[t].likes_count =
                        Lowered(tutorials[t].likes_count, tutorial_likes[<<t, id>>])
                   /\ tutorials'[t].comments_count =
                        Lowered(tutorials[t].comments_count,
                                tutorial_comments[<<t, id>>])
                   /\ tutorials'[t].enrollments_count =
                        Lowered(tutorials[t].enrollments_count,
                                enrollments[<<t, id>>])
         /\ \A p \in Pairs :
              IF p[2] = id \/ p[1] \notin DOMAIN tutorials'
              THEN /\ tutorial_likes'[p] = 0
                   /\ tutorial_comments'[p] = 0
                   /\ enrollments'[p] = 0
              ELSE /\ tutorial_likes'[p] = tutorial_likes[p]
                   /\ tutorial_comments'[p] = tutorial_comments[p]
                   /\ enrollments'[p] = enrollments[p]]_vars

\* an identity was deleted; a tutorial of another user survives with its
\* counters at the rows it keeps, here none
C8_Witness ==
  /\ last = Response("DeleteUser", "ok")
  /\ auth_users # {}
  /\ \E t \in DOMAIN tutorials :
       /\ tutorials[t].likes_count = 0 /\ LikesOf(t) = 0
       /\ tutorials[t].enrollments_count = 0 /\ EnrollmentsOf(t) = 0
  /\ \E t \in TutorialIds : t \notin DOMAIN tutorials

\* C9: the profiles are exactly the rows of the existing accounts, one per
\* account with id = account id, and a profile appears only in the step
\* that creates its account.
C9_OneProfilePerAccount ==
  /\ [](DOMAIN profiles = auth_users)
  /\ [][\A id \in Users :
          (id \notin DOMAIN profiles /\ id \in DOMAIN profiles')
            => /\ last'.op = "CreateUser"
               /\ id \notin auth_users /\ id \in auth_users']_vars

\* an account holds its profile and a request for a second profile of the
\* same id was rejected by the primary key
C9_Witness ==
  /\ last = Response("InsertProfile", "unique_violation")
  /\ auth_users # {}
  /\ DOMAIN profiles = auth_users

\* C10 as stated: the schema layer grants no insert on profiles, so the
\* policies refuse every insert request, whoever sends it.
C10_NoInsertRight ==
  last.op = "InsertProfile" => last.result = "rls_violation"

\* C10, amended: the policy "Users can insert own profile" lets a caller
\* send an insert for id = caller and refuses every other; no insert request
\* adds a profile row, because the caller's profile exists (primary key) or
\* its account does not (foreign key); a profile row appears only by the
\* account-creation trigger, and an update that the schema layer accepts is
\* by the caller that is the profile's id, any other changes no profile.
C10_ProfilesSystemCreated ==
  [][/\ last'.op = "InsertProfile" =>
          /\ UNCHANGED profiles
          /\ \A c \in Callers, id \in Users, n \in Names :
               InsertProfile(c, id, n) =>
                 IF c = id
                 THEN last'.result \in {"unique_violation", "fk_violation"}
                 ELSE last'.result = "rls_violation"
     /\ DOMAIN profiles' # DOMAIN profiles =>
          last'.op \in {"CreateUser", "DeleteUser"}
     /\ last'.op = "UpdateProfile" =>
          IF last'.result = "ok"
          THEN \A c \in Callers, id \in DOMAIN profiles, n \in Names :
                 UpdateProfile(c, id, n) => c = id
          ELSE UNCHANGED profiles
     /\ profiles' # profiles =>
          last'.op \in {"CreateUser", "DeleteUser", "UpdateProfile"}]_vars

\* a caller's insert of its own profile passed the policy and failed on the
\* primary key; an update of another user's profile was filtered out
C10_Witness ==
  /\ last = Response("InsertProfile", "unique_violation")
  /\ \E id \in DOMAIN profiles : profiles[id].full_name # DefaultName

\* C11: in the bucket every object is readable by anyone, and an object is
\* uploaded, updated or deleted only by the caller whose id is the first
\* segment of the object's name.
C11_OwnFolderWrites ==
  /\ storage_last.op = "ReadObject"
       => storage_last.result \in {"ok", "not_found"}
  /\ storage_last.op \in {"UploadObject", "UpdateObject", "DeleteObject"}
       /\ storage_last.result = "ok"
       => OwnFolder(storage_last.caller, storage_last.name)

\* the transactions on table that committed statement tg_op
Committed(table, tg_op) ==
  Cardinality({u \in Users : /\ txn[u].pc = "committed"
                             /\ txn[u].table = table
                             /\ txn[u].tg_op = tg_op})

\* C12: once the concurrent transactions of distinct users on one tutorial
\* have all ended, each counter has gone up by the number of committed
\* inserts and down by the number of committed deletes of its table,
\* whatever the interleaving: no increment or decrement is lost.
C12_NoLostUpdate ==
  (\A u \in Users : txn[u].pc \in {"idle", "committed", "aborted"})
    => /\ tutorials[TxnTutorial].likes_count =
            txn_start.likes_count + Committed("tutorial_likes", "INSERT")
                                  - Committed("tutorial_likes", "DELETE")
       /\ tutorials[TxnTutorial].enrollments_count =
            txn_start.enrollments_count + Committed("enrollments", "INSERT")
                                        - Committed("enrollments", "DELETE")
       /\ tutorials[TxnTutorial].likes_count = LikesOf(TxnTutorial)
       /\ tutorials[TxnTutorial].enrollments_count = EnrollmentsOf(TxnTutorial)

\* every user liked the tutorial in a transaction of their own, all have
\* committed, and the counter went up by the number of users
C12_Witness ==
  /\ Committed("tutorial_likes", "INSERT") = Cardinality(Users)
  /\ tutorials[TxnTutorial].likes_count = txn_start.likes_count + Cardinality(Users)

\* C13: a like or enrollment insert of TutorialDetail that is rejected for
\* (tutorial, user) uniqueness is an idempotent no-op for the view: the
\* handler reports no failure and ends with isLiked / isEnrolled true.
C13_DuplicateIsNoOp ==
  \A h \in DOMAIN handlers :
    /\ handlers[h].pc = "done"
    /\ handlers[h].kind \in {"like", "enroll"}
    /\ handlers[h].branch = "insert"
    /\ handlers[h].result = "unique_violation"
    => /\ handlers[h].toast # "error"
       /\ handlers[h].flag

\* C14: a submission of CreateTutorial whose selected thumbnail failed to
\* upload issues no insert into tutorials, and a tutorials row appears only
\* with the answer to the insert of a submission that had no thumbnail or
\* whose upload succeeded.
C14_FailedUploadNoInsert ==
  /\ [](\A h \in DOMAIN handlers :
          /\ handlers[h].kind = "create"
          /\ handlers[h].thumbnail
          /\ handlers[h].upload \notin {"none", "ok"}
          => /\ handlers[h].sent = 0
             /\ handlers[h].result = "none"
             /\ handlers[h].pc \in {"uploaded", "done"})
  /\ [][DOMAIN tutorials' \ DOMAIN tutorials # {}
          => \E h \in DOMAIN handlers :
               /\ handlers[h].kind = "create"
               /\ handlers[h].pc = "request" /\ handlers'[h].pc = "response"
               /\ handlers'[h].result = "ok"
               /\ handlers[h].thumbnail => handlers[h].upload = "ok"]_vars

\* a submission with a thumbnail ended after its upload failed, with the
\* failure toast and no tutorial of the viewer
C14_Witness ==
  \E h \in DOMAIN handlers :
    /\ handlers[h].kind = "create" /\ handlers[h].thumbnail
    /\ handlers[h].pc = "done" /\ handlers[h].upload = "network_error"
    /\ handlers[h].uploads = 1 /\ handlers[h].toast = "error"
    /\ \A t \in DOMAIN tutorials : tutorials[t].user_id # Viewer

\* C15: a handler invocation issues its statement at most once and its
\* upload at most once; after a failed request it only ends (it never goes
\* back to sending), and an invocation that has ended does nothing more.
C15_NoRetry ==
  /\ [](\A h \in DOMAIN handlers :
          handlers[h].sent <= 1 /\ handlers[h].uploads <= 1)
  /\ [][\A h \in DOMAIN handlers :
          /\ handlers[h].result \notin {"none", "ok", "not_found", "rls_filtered"}
             \/ handlers[h].upload \notin {"none", "ok"}
             => /\ handlers'[h].pc \in {handlers[h].pc, "done"}
                /\ handlers'[h].sent = handlers[h].sent
                /\ handlers'[h].uploads = handlers[h].uploads
          /\ handlers[h].pc = "done" => handlers'[h] = handlers[h]]_vars

\* a like was rejected as a duplicate, the handler ended with the failure
\* toast after its one request, and the other invocation's like stands
C15_Witness ==
  \E h \in DOMAIN handlers :
    /\ handlers[h].pc = "done" /\ handlers[h].kind = "like"
    /\ handlers[h].result = "unique_violation"
    /\ handlers[h].sent = 1 /\ handlers[h].toast = "error"
    /\ \A g \in DOMAIN handlers : handlers[g].pc = "done"

\* C16: the profile that the creation of an account makes has the
\* full_name of the account's metadata when there is one and 'New User'
\* when there is none, and has no bio and no avatar_url.
C16_NewProfile ==
  [][last'.op = "CreateUser" /\ last'.result = "ok"
       => \A id \in Users \ auth_users, m \in Names \cup {Null} :
            CreateUser(id, m)
              => /\ id \in DOMAIN profiles'
                 /\ profiles'[id].full_name = (IF m = Null THEN "New User" ELSE m)
                 /\ profiles'[id].bio = Null
                 /\ profiles'[id].avatar_url = Null]_vars

\* an account was just created, and there are a profile with the default
\* name and a profile with a supplied one
C16_Witness ==
  /\ last = Response("CreateUser", "ok")
  /\ \E a, b \in DOMAIN profiles :
       /\ profiles[a] = [full_name |-> "New User", bio |-> Null, avatar_url |-> Null]
       /\ profiles[b] = [full_name |-> "Ann", bio |-> Null, avatar_url |-> Null]

\* the counter after one accepted insert or delete that changed the number
\* of rows by d
Moved(count, d) ==
  IF d = 1 THEN count + 1 ELSE IF d = -1 THEN Greatest(count - 1, 0) ELSE count

\* C18: an accepted insert of a like, comment or enrollment adds one row
\* and raises the counter of its table on its tutorial by exactly 1, an
\* accepted delete takes one row and lowers that counter by 1 with the floor
\* 0; no other counter of any tutorial changes.
C18_OneCounterMoves ==
  [][last'.op \in ChildOps /\ last'.result = "ok"
       => LET dl(t) == RowsOf(tutorial_likes', t) - RowsOf(tutorial_likes, t)
              dc(t) == RowsOf(tutorial_comments', t) - RowsOf(tutorial_comments, t)
              de(t) == RowsOf(enrollments', t) - RowsOf(enrollments, t)
              sign == IF last'.op \in {"InsertLike", "InsertComment", "InsertEnrollment"}
                      THEN 1 ELSE -1
          IN /\ DOMAIN tutorials' = DOMAIN tutorials
             /\ \E t \in DOMAIN tutorials :
                  /\ <<dl(t), dc(t), de(t)>> =
                       <<IF last'.op \in {"InsertLike", "DeleteLike"} THEN sign ELSE 0,
                         IF last'.op \in {"InsertComment", "DeleteComment"} THEN sign ELSE 0,
                         IF last'.op \in {"InsertEnrollment", "DeleteEnrollment"} THEN sign ELSE 0>>
                  /\ \A x \in TutorialIds \ {t} : <<dl(x), dc(x), de(x)>> = <<0, 0, 0>>
             /\ \A t \in DOMAIN tutorials :
                  tutorials'[t] =
                    [user_id |-> tutorials[t].user_id,
                     likes_count |-> Moved(tutorials[t].likes_count, dl(t)),
                     comments_count |-> Moved(tutorials[t].comments_count, dc(t)),
                     enrollments_count |-> Moved(tutorials[t].enrollments_count, de(t))]]_vars

\* one of two comments of a tutorial was just deleted: one comment stays,
\* counted 1, the other two counters at 0
C18_Witness ==
  /\ last = Response("DeleteComment", "ok")
  /\ \E t \in DOMAIN tutorials :
       /\ CommentsOf(t) = 1
       /\ tutorials[t].comments_count = 1
       /\ tutorials[t].likes_count = 0 /\ tutorials[t].enrollments_count = 0

UpdateOps == {"UpdateLike", "UpdateComment", "UpdateEnrollment"}

\* C19: no caller is granted an UPDATE of a like, comment or enrollment row:
\* every such request reaches no row and leaves the child tables and every
\* tutorial, counters included, as they were; a tutorial's counters change
\* only by an accepted insert or delete of a child row.
C19_NoChildUpdate ==
  [][/\ last'.op \in UpdateOps
          => /\ last'.result \in {"not_found", "rls_filtered"}
             /\ UNCHANGED <<tutorials, Tables>>
     /\ tutorials' # tutorials
          => last'.op \in ChildOps /\ last'.result = "ok"]_vars

\* the author of a comment asked to update it and reached no row, the
\* comment counted once
C19_Witness ==
  /\ last = Response("UpdateComment", "rls_filtered")
  /\ \E t \in DOMAIN tutorials :
       /\ CommentsOf(t) = 1 /\ tutorials[t].comments_count = 1
       /\ \E u \in Users : tutorial_comments[<<t, u>>] = 1 /\ u \in auth_users

\* C17: after every UPDATE that reaches a profiles or tutorials row the
\* row's updated_at is the time of the update, whatever columns the
\* statement set and whatever value it gave updated_at; created_at and the
\* other columns are what the statement made them (unchanged when it did
\* not set them). An UPDATE that reaches no row changes nothing.
C17_UpdatedAtIsNow ==
  [][/\ (stamped_last'.op = "UpdateStamped" /\ now' = now)
          => \A tbl \in StampedTables, owner \in BOOLEAN, set \in Assignments :
               UpdateStamped(tbl, owner, set)
                 => IF stamped_last'.result = "ok"
                    THEN /\ stamped'[tbl].updated_at = now
                         /\ stamped'[tbl].created_at =
                              (IF "created_at" \in DOMAIN set THEN set.created_at
                               ELSE stamped[tbl].created_at)
                         /\ stamped'[tbl].body =
                              (IF "body" \in DOMAIN set THEN set.body
                               ELSE stamped[tbl].body)
                         /\ \A t \in DOMAIN stamped \ {tbl} : stamped'[t] = stamped[t]
                    ELSE UNCHANGED stamped
     /\ \A count \in Times :
          CounterUpdate(count)
            => /\ stamped'["tutorials"].updated_at = now
               /\ stamped'["tutorials"].created_at = stamped["tutorials"].created_at
               /\ stamped'["tutorials"].body = count]_vars

\* a row made at time 0 was just updated later: updated_at is the time of
\* the update, created_at the time of the insert
C17_Witness ==
  /\ stamped_last = Response("UpdateStamped", "ok")
  /\ now > 0
  /\ \E tbl \in DOMAIN stamped :
       stamped[tbl].created_at = 0 /\ stamped[tbl].updated_at = now

\* C20: when user B, who has no like on tutorial X, likes X and X's counters
\* were consistent, likes_count is one more than before and the like rows
\* are the former ones and B's; when B then unlikes X, likes_count and the
\* like rows are what they were before the like. The same holds for
\* enrollments and enrollments_count.
C20_RoundTrip ==
  (trip.phase \in {"forth", "back"} /\ trip.consistent)
    => LET rows == TripRows(trip.table)
           count == TripCount(trip.table, tutorials[trip.tutorial])
       IN IF trip.phase = "forth"
          THEN /\ count = trip.count + 1
               /\ rows = [trip.rows EXCEPT ![<<trip.tutorial, trip.user>>] = 1]
          ELSE /\ count = trip.count
               /\ rows = trip.rows

\* a user has liked and unliked a fresh tutorial: likes_count is 0 again
\* and no like row is left
C20_Witness ==
  /\ trip.phase = "back"
  /\ trip.table = "tutorial_likes"
  /\ trip.consistent
  /\ trip.count = 0
  /\ last = Response("DeleteLike", "ok")
  /\ tutorials[trip.tutorial].likes_count = 0
  /\ tutorial_likes = EmptyTable

SchemaMessages ==
  {"Title must be at least 5 characters", "Title too long",
   "Description must be at least 20 characters", "Description too long",
   "Please select a category", "Please select a difficulty level"}

\* C21: the pending thumbnail and every file sent for upload have at most
\* 5 * 1024 * 1024 bytes; picking a larger file leaves the pending thumbnail
\* (none, or the one accepted before) as it was and sends nothing; picking a
\* file of at most that size makes it the pending thumbnail.
C21_ThumbnailAtMost5MB ==
  /\ [](page.name = "CreateTutorial"
          => /\ page.thumbnailFile <= 5 * 1024 * 1024
             /\ page.file <= 5 * 1024 * 1024
             /\ \A size \in page.uploads : size <= 5 * 1024 * 1024)
  /\ [][\A size \in FileSizes \ {0} :
          handleThumbnailChange(size)
            => IF size > 5 * 1024 * 1024
               THEN /\ page'.thumbnailFile = page.thumbnailFile
                    /\ page'.thumbnailPreview = page.thumbnailPreview
                    /\ page'.uploads = page.uploads
               ELSE page'.thumbnailFile = size]_vars

\* a file of exactly 5 MB was accepted, a larger one refused after it, and
\* a submit has sent the accepted one
C21_Witness ==
  /\ page.name = "CreateTutorial"
  /\ page.toast = "Image must be less than 5MB"
  /\ page.thumbnailFile = MaxThumbnailBytes
  /\ page.uploads = {MaxThumbnailBytes}

\* C27: handleSubmit sends an upload or an insert only for a form whose
\* title has 5 to 200 characters, whose description has 20 to 2000 and
\* whose category and difficulty are selected; for any other form it
\* leaves the component as it was but for an error notification.
C27_InvalidFormSendsNothing ==
  [][\A data \in FormData :
       CreateTutorial_handleSubmit(data)
         => IF /\ data.title >= 5 /\ data.title <= 200
               /\ data.description >= 20 /\ data.description <= 2000
               /\ data.category # "" /\ data.difficulty # ""
            THEN page'.pc \in {"upload", "insert"}
            ELSE /\ page'.toast \in SchemaMessages
                 /\ page' = [page EXCEPT !.toast = page'.toast,
                                         !.calls = page.calls + 1]
                 /\ UNCHANGED <<database, storage>>]_vars

\* a form with a thumbnail selected and a title of 201 characters was
\* submitted: nothing was sent
C27_Witness ==
  /\ page.name = "CreateTutorial"
  /\ page.toast = "Title too long"
  /\ page.thumbnailFile # 0
  /\ page.uploads = {} /\ page.inserts = 0
  /\ ~page.isLoading

\* every call of the page has settled, and no request failed on the way
AllSettled ==
  \A h \in DOMAIN handlers :
    /\ handlers[h].pc \in {"idle", "done"}
    /\ handlers[h].result # "network_error"

\* C22: once checkLikeStatus, checkEnrollmentStatus and every handleLike /
\* handleEnroll call of a signed-in TutorialDetail have settled, isLiked is
\* true exactly when the user's tutorial_likes row exists, and isEnrolled
\* exactly when the enrollments row exists.
C22_FlagsMatchRows ==
  (CheckCalls \subseteq DOMAIN handlers /\ AllSettled)
    => /\ view.isLiked <=> tutorial_likes[<<ViewedTutorial, view.user>>] > 0
       /\ view.isEnrolled <=> enrollments[<<ViewedTutorial, view.user>>] > 0

ToggleInserts == {"InsertLike", "InsertEnrollment"}
ToggleDeletes == {"DeleteLike", "DeleteEnrollment"}

\* C25: handleLike / handleEnroll send an insert exactly when the flag of
\* their render is false and a delete exactly when it is true; when the
\* write is answered with an error the flags stay as they are and no
\* refetch is sent; when it succeeds the flag becomes the negation of what
\* it was at the click and the tutorial is refetched.
C25_ToggleOutcome ==
  [][\A h \in HandlerIds :
       /\ handleLike(h) => handlers'[h].seen = view.isLiked
       /\ handleEnroll(h) => handlers'[h].seen = view.isEnrolled
       /\ Respond(h)
            => /\ last'.op \in ToggleInserts <=> ~handlers[h].seen
               /\ last'.op \in ToggleDeletes <=> handlers[h].seen
               /\ last'.op \in {"InsertLike", "DeleteLike"}
                    <=> handlers[h].kind = "like"
       /\ SettleToggle(h)
            => IF IsError(handlers[h].result)
               THEN view' = view /\ ~handlers'[h].refetch
               ELSE /\ handlers'[h].refetch
                    /\ IF handlers[h].kind = "like"
                       THEN /\ view'.isLiked = ~handlers[h].seen
                            /\ view'.isEnrolled = view.isEnrolled
                       ELSE /\ view'.isEnrolled = ~handlers[h].seen
                            /\ view'.isLiked = view.isLiked]_vars

\* a like succeeded from isLiked false and the flag is true, and a second
\* click sent at the same time was rejected and left it true
C25_Witness ==
  /\ view.isLiked
  /\ \E h, g \in HandlerIds :
       /\ handlers[h].pc = "done" /\ handlers[h].kind = "like"
       /\ handlers[h].toast = "success" /\ ~handlers[h].seen /\ handlers[h].refetch
       /\ handlers[g].pc = "done" /\ handlers[g].kind = "like"
       /\ handlers[g].toast = "error" /\ ~handlers[g].refetch

\* the calls of handleDeleteTutorial with the given outcomes
DeleteCalls(outcomes) ==
  {h \in HandlerIds : page.calls[h].outcome \in outcomes}

\* C23: on the Dashboard, once every handleDeleteTutorial call has settled,
\* myTutorials holds no tutorial whose delete succeeded and still holds
\* every tutorial whose delete failed or was not confirmed (and that no
\* other call deleted), however the calls interleave.
C23_DeletesSettle ==
  (page.name = "Dashboard" /\ DeletesInFlight = {}) =>
     /\ \A h \in DeleteCalls({"ok"}) : page.calls[h].id \notin page.myTutorials
     /\ \A h \in DeleteCalls({"error", "declined"}) :
          (\A g \in DeleteCalls({"ok"}) : page.calls[g].id # page.calls[h].id)
             => page.calls[h].id \in page.myTutorials

\* C24: on Browse, once every fetch has settled successfully the displayed
\* list is the result for the filters selected last, whatever the order of
\* the responses, and loading is false only when no fetch is in flight.
C24_LatestFiltersShown ==
  page.name = "Browse" =>
    /\ (\A i \in DOMAIN page.fetches : page.fetches[i].pc = "done")
          => page.tutorials = Query(page.filters)
    /\ ~page.loading
          => \A i \in DOMAIN page.fetches : page.fetches[i].pc # "request"

\* the handlers of TutorialDetail that write for the user
UserHandlers == {"like", "enroll", "comment"}

RECURSIVE Spaces(_)
Spaces(n) == IF n = 0 THEN <<>> ELSE <<" ">> \o Spaces(n - 1)

\* content is text without the spaces at its ends, and is not empty
IsTrimmed(content, text) ==
  /\ content # <<>>
  /\ Head(content) # " " /\ content[Len(content)] # " "
  /\ \E i, j \in 0..Len(text) : text = Spaces(i) \o content \o Spaces(j)

\* C29: handleSubmitComment never inserts an empty or white-space-only
\* text, the content it inserts is the entered text trimmed, and the text
\* field is cleared only after a successful insert and kept on a failure.
C29_CommentTrimmed ==
  /\ [](page.name = "TutorialDetail" /\ page.pc = "insert"
          => IsTrimmed(page.sent, page.commentText))
  /\ [][page.name = "TutorialDetail" /\ page.pc = "insert" /\ page'.pc = "idle"
          => IF tutorial_comments' # tutorial_comments
             THEN /\ page'.commentText = <<>>
                  /\ page'.posted = Append(page.posted, page.sent)
             ELSE /\ page'.commentText = page.commentText
                  /\ page'.posted = page.posted]_vars
  /\ [][page.name = "TutorialDetail" /\ tutorial_comments' # tutorial_comments
          => page.pc = "insert"]_vars

\* a comment typed with a space in front was posted, a second one failed
\* and is still in the field
C29_Witness ==
  /\ page.name = "TutorialDetail"
  /\ page.posted = << <<"a">> >>
  /\ page.toast = "Failed to post comment"
  /\ page.commentText = <<" ", "a">>
  /\ tutorial_comments[<<ViewedTutorial, Viewer>>] = 1

\* the busy flags of a page whose handler or fetch is under way
Busy ==
  CASE page.name = "CreateTutorial" -> page.isLoading \/ page.uploadingImage
    [] page.name = "TutorialDetail" -> page.submittingComment \/ page.loading
    [] page.name \in {"Dashboard", "Home"} -> page.loading
    [] OTHER -> FALSE

\* a handler or a fetch of the page has started and not ended
Started ==
  CASE page.name = "CreateTutorial" -> page.pc \in {"upload", "insert"}
    [] page.name = "TutorialDetail" -> page.pc = "insert" \/ page.fetching > 0
    [] page.name \in {"Dashboard", "Home"} -> page.fetch = "request"
    [] OTHER -> FALSE

\* C28: every started handler clears its busy flag on every exit path:
\* isLoading and uploadingImage are false once handleSubmit has ended,
\* submittingComment once handleSubmitComment has ended, and loading once
\* Dashboard.fetchData, TutorialDetail.fetchTutorial or
\* Home.fetchFeaturedTutorials has ended, with a result or with an error;
\* and each of them ends.
C28_BusyFlagsCleared ==
  /\ [](page.name = "CreateTutorial" /\ page.pc \notin {"upload", "insert"}
          => ~page.isLoading /\ ~page.uploadingImage)
  /\ [](page.name = "TutorialDetail" /\ page.pc # "insert"
          => ~page.submittingComment)
  /\ [](page.name = "TutorialDetail" /\ page.fetching = 0 => ~page.loading)
  /\ [](page.name \in {"Dashboard", "Home"} /\ page.fetch \in {"done", "failed"}
          => ~page.loading)
  /\ Started ~> (~Started /\ ~Busy)

\* an upload of CreateTutorial failed and handleSubmit has ended with both
\* flags cleared
C28_Witness ==
  /\ page.name = "CreateTutorial"
  /\ page.toast = "Failed to upload thumbnail"
  /\ page.pc = "idle"
  /\ ~page.isLoading /\ ~page.uploadingImage

\* C30: every in-app navigation target (/, /auth, /browse, /dashboard,
\* /create-tutorial, /tutorial/:id, /profile, /edit-tutorial/:id) matches a
\* route of App other than the catch-all NotFound.
C30_TargetsRouted ==
  page.name = "Router" => page.route.element # "NotFound"

====
